---- MODULE Spec2Model ----
(***************************************************************************)
(* Model of the Eden PS5 port: the PS5Renderer frame counter, the GNM      *)
(* wrapper's bump allocator, the PS5Application main loop, the etaHEN      *)
(* plugin and the input manager's button mapping.                          *)
(*                                                                         *)
(* Fixed-width unsigned integers are kept at their width.  A value of      *)
(* width 16*n bits is a sequence of n limbs, least significant first, each *)
(* limb in 0 .. 2^16 - 1 (uint32_t: 2 limbs, uint64_t / size_t: 4 limbs).  *)
(***************************************************************************)
EXTENDS Integers, Sequences, FiniteSets, TLC

VARIABLES
    \* PS5Renderer
    current_frame_,          \* uint32_t, 2 limbs
    current_frame_buffer_,   \* size_t, always small: kept as a number
    frame_buffers_,          \* FrameBuffer[MAX_FRAME_BUFFERS]
    cmd_log,                 \* history: calls made on the command buffer and
                             \* the GNM wrapper since the renderer was created
    renderer,                \* initialized_ and the four unique_ptr members
    \* GNMWrapper::Impl
    gpu_memory_offset,       \* uint64_t, 4 limbs
    allocs,                  \* history: the allocations made so far
    last_alloc,              \* history: the last AllocateGPUMemory call
    gnm,                     \* GNMWrapper::initialized_ and Impl's handles
    \* PS5Application
    app,                     \* the members of PS5Application
    pc,                      \* where the thread inside Run is ("idle": not in Run)
    loop,                    \* MainLoop's locals and the last frame's timing
    trace,                   \* history: calls made on the subsystems by the
                             \* operation in progress or last finished
    run_result,              \* what the last Run returned
    \* EtaHENPlugin
    PS5_BUILD,               \* whether the program was built with PS5_BUILD
    plugin,                  \* the members of EtaHENPlugin
    sock_log,                \* history: the socket calls made so far
    plugin_last,             \* history: the last call of the plugin and
                             \* what it returned
    \* PS5InputManager
    input_initialized_,
    button_mapping_,         \* std::vector<SwitchButtonMapping>
    \* PS5AudioManager
    audio_manager,           \* the members of PS5AudioManager
    last_steps,              \* history: the steps taken by the last
                             \* Initialize or Shutdown of a renderer, a GNM
                             \* wrapper or an audio manager
    ps5_event,               \* history: the arguments of the last
    switch_event,            \* MapPS5ToSwitchInput when it returned
    \* main and PS5System
    main_pc,                 \* where main is ("none": main is not running)
    main_result,             \* what main returned
    g_ps5_app,               \* whether g_ps5_app holds an application
    platform,                \* the static members of PS5System
    main_trace,              \* history: the calls main has made
    signalled                \* history: whether SignalHandler has run

frameVars ==
    <<current_frame_, current_frame_buffer_, frame_buffers_, cmd_log, renderer>>
gpuVars == <<gpu_memory_offset, allocs, last_alloc, gnm>>
lifeVars == <<audio_manager, last_steps>>
appVars == <<app, pc, loop, trace, run_result>>
pluginVars == <<PS5_BUILD, plugin, sock_log, plugin_last>>
inputVars == <<input_initialized_, button_mapping_, ps5_event, switch_event>>
mainVars == <<main_pc, main_result, g_ps5_app, platform, main_trace>>
vars ==
    <<frameVars, gpuVars, lifeVars, appVars, pluginVars, inputVars, mainVars,
      signalled>>

----------------------------------------------------------------------------
(* Fixed-width unsigned arithmetic on limb sequences *)

Limb == 2^16

U32Limbs == 1 + 1
U64Limbs == 2 * U32Limbs

Zero(n) == [i \in 1..n |-> 0]

\* The n-limb value of a small natural number k < Limb^2.
FromNat(k, n) == [i \in 1..n |-> IF i = 1 THEN k % Limb
                                 ELSE IF i = 2 THEN k \div Limb ELSE 0]

\* Integer conversion to a wider unsigned type: zero extension.
ZeroExtend(a, n) == [i \in 1..n |-> IF i <= Len(a) THEN a[i] ELSE 0]

RECURSIVE AddCarry(_, _, _, _)
AddCarry(a, b, i, c) ==
    IF i > Len(a) THEN <<>>
    ELSE LET s == a[i] + b[i] + c
         IN  <<s % Limb>> \o AddCarry(a, b, i + 1, s \div Limb)

\* a + b modulo 2^(16 * Len(a)): unsigned addition wraps.
UAdd(a, b) == AddCarry(a, b, 1, 0)

\* a + b without wrapping, one limb wider than the operands.
UAddWide(a, b) ==
    UAdd(ZeroExtend(a, Len(a) + 1), ZeroExtend(b, Len(a) + 1))

\* -a modulo 2^(16 * Len(a)).
UNeg(a) == UAdd([i \in 1..Len(a) |-> Limb - 1 - a[i]], FromNat(1, Len(a)))

\* a - b modulo 2^(16 * Len(a)).
USub(a, b) == UAdd(a, UNeg(b))

\* ~a
UNot(a) == [i \in 1..Len(a) |-> Limb - 1 - a[i]]

RECURSIVE BitAnd(_, _)
BitAnd(x, y) ==
    IF x = 0 \/ y = 0 THEN 0
    ELSE (x % 2) * (y % 2) + 2 * BitAnd(x \div 2, y \div 2)

\* a & b
UAnd(a, b) == [i \in 1..Len(a) |-> BitAnd(a[i], b[i])]

RECURSIVE LessFrom(_, _, _)
LessFrom(a, b, i) ==
    IF i = 0 THEN FALSE
    ELSE IF a[i] # b[i] THEN a[i] < b[i]
    ELSE LessFrom(a, b, i - 1)

\* a < b, operands of the same length.
ULess(a, b) == LessFrom(a, b, Len(a))
ULeq(a, b) == ~ULess(b, a)

\* a % m for a small modulus m (Horner's rule from limb i upwards).
RECURSIVE ModFrom(_, _, _)
ModFrom(a, m, i) ==
    IF i > Len(a) THEN 0
    ELSE ((a[i] % m) + (Limb % m) * ModFrom(a, m, i + 1)) % m
UMod(a, m) == ModFrom(a, m, 1)

----------------------------------------------------------------------------
(* GNMWrapper: the development allocator *)

\* 0x100000000ULL
gpu_memory_base == <<0, 0, 1, 0>>

\* (gpu_memory_offset + alignment - 1) & ~(alignment - 1): the left operand
\* is computed in uint64_t; alignment - 1 and its complement are uint32_t
\* and are zero-extended for the &.
AlignedOffset(offset, alignment) ==
    LET one64 == FromNat(1, U64Limbs)
        one32 == FromNat(1, U32Limbs)
        left  == USub(UAdd(offset, ZeroExtend(alignment, U64Limbs)), one64)
        mask  == UNot(USub(alignment, one32))
    IN  UAnd(left, ZeroExtend(mask, U64Limbs))

\* GNMWrapper::Impl::AllocateMemory: the address returned and the new offset.
AllocateMemory(offset, size, alignment) ==
    LET aligned_offset == AlignedOffset(offset, alignment)
    IN  [address |-> UAdd(gpu_memory_base, aligned_offset),
         offset  |-> UAdd(aligned_offset, size)]

\* The history record of one AllocateGPUMemory call.
AllocRecord(before, size, alignment) ==
    [called |-> TRUE, before |-> before, size |-> size,
     alignment |-> alignment,
     address |-> AllocateMemory(before, size, alignment).address]

\* Bound: the number of allocations of one run.
MaxAllocs == 3

\* size_t sizes: 1, a 256-byte buffer, a page, one 1920x1080 RGBA8 frame
\* buffer, 2^31 and 2^32 bytes.
Sizes == { FromNat(1, U64Limbs), FromNat(256, U64Limbs),
           FromNat(4096, U64Limbs), FromNat(1920 * 1080 * 4, U64Limbs),
           <<0, 2^15, 0, 0>>, <<0, 0, 1, 0>> }

\* uint32_t power-of-two alignments: 1, 256 (CreateBuffer), 4096.
Alignments == { FromNat(1, U32Limbs), FromNat(256, U32Limbs),
                FromNat(4096, U32Limbs) }

----------------------------------------------------------------------------
(* PS5Renderer: frame buffers and frame management *)

MAX_FRAME_BUFFERS == 3
display_width_ == 1920
display_height_ == 1080

\* display_width_ * display_height_ * 4, as size_t.
BufferSize == FromNat(display_width_ * display_height_ * 4, U64Limbs)

\* The alignment CreateFramebuffers asks for.
BufferAlignment == FromNat(4096, U32Limbs)

\* PS5Renderer::CreateFramebuffers from frame buffer i on; st holds the
\* allocator's offset, the frame buffers created and the allocation history.
\* An address of 0 makes it fail.
RECURSIVE CreateFramebuffersFrom(_, _)
CreateFramebuffersFrom(i, st) ==
    IF i > MAX_FRAME_BUFFERS THEN st
    ELSE LET color == AllocRecord(st.offset, BufferSize, BufferAlignment)
             mid   == AllocateMemory(st.offset, BufferSize, BufferAlignment).offset
             depth == AllocRecord(mid, BufferSize, BufferAlignment)
             after == AllocateMemory(mid, BufferSize, BufferAlignment).offset
         IN  IF color.address = Zero(U64Limbs)
             THEN [st EXCEPT !.ok = FALSE, !.offset = mid,
                             !.history = Append(@, color)]
             ELSE IF depth.address = Zero(U64Limbs)
             THEN [st EXCEPT !.ok = FALSE, !.offset = after,
                             !.history = @ \o <<color, depth>>]
             ELSE CreateFramebuffersFrom(i + 1,
                    [st EXCEPT !.offset = after,
                               !.history = @ \o <<color, depth>>,
                               !.fbs = Append(@,
                                   [color_buffer_addr |-> color.address,
                                    depth_buffer_addr |-> depth.address])])

CreateFramebuffers ==
    CreateFramebuffersFrom(1, [ok |-> TRUE, offset |-> Zero(U64Limbs),
                               fbs |-> <<>>, history |-> <<>>])

\* The allocator of a new GNM wrapper after CreateFramebuffers.
FramebuffersOf(made) ==
    [ok                |-> made.ok,
     frame_buffers_    |-> made.fbs,
     gpu_memory_offset |-> made.offset,
     allocs            |-> [i \in 1..Len(made.history) |->
                               [address |-> made.history[i].address,
                                size |-> made.history[i].size]],
     last_alloc        |-> made.history[Len(made.history)]]

FramebufferAllocs == FramebuffersOf(CreateFramebuffers)

\* GNMWrapper::GNMWrapper with a new Impl.
GNMWrapperConstructed ==
    [initialized_ |-> FALSE, device_handle |-> 0, context_handle |-> 0,
     command_queue_handle |-> 0]

\* GNMWrapper::Initialize with InitializeDevice and CreateCommandQueue, which
\* store the handle 1 in either build and so never fail.
GNMWrapperInitialize(g) ==
    IF g.initialized_ THEN [g |-> g, ret |-> TRUE, steps |-> <<>>]
    ELSE [g |-> [initialized_ |-> TRUE, device_handle |-> 1,
                 context_handle |-> 1, command_queue_handle |-> 1],
          ret |-> TRUE,
          steps |-> <<"InitializeDevice", "CreateCommandQueue">>]

\* GNMWrapper::Shutdown with DestroyCommandQueue and ShutdownDevice.
GNMWrapperShutdown(g) ==
    IF ~g.initialized_ THEN [g |-> g, steps |-> <<>>]
    ELSE [g |-> [initialized_ |-> FALSE, device_handle |-> 0,
                 context_handle |-> 0, command_queue_handle |-> 0],
          steps |-> <<"WaitForIdle", "DestroyCommandQueue", "ShutdownDevice">>]

GNMWrapperReady == GNMWrapperInitialize(GNMWrapperConstructed).g

\* The unique_ptr members of PS5Renderer in the order Initialize makes
\* them.  One is "null", or points to an object whose Initialize returned
\* false ("failed") or true ("ready"), or that was shut down ("stopped").
RendererPointers ==
    <<"gnm_wrapper_", "command_buffer_", "texture_manager_", "shader_compiler_">>

\* The parts of a renderer whose Initialize may return false.
RendererParts == {"command_buffer_", "texture_manager_", "shader_compiler_"}

\* PS5Renderer::PS5Renderer: initialized_ and the pointers.
RendererMembers ==
    [initialized_ |-> FALSE, gnm_wrapper_ |-> "null",
     command_buffer_ |-> "null", texture_manager_ |-> "null",
     shader_compiler_ |-> "null"]

\* The members after the parts of Initialize up to RendererPointers[last]
\* ran, the one named fail (if any) returning false.
RECURSIVE RendererMembersFrom(_, _, _, _)
RendererMembersFrom(m, k, last, fail) ==
    IF k > last THEN m
    ELSE RendererMembersFrom(
             [m EXCEPT ![RendererPointers[k]] =
                 IF RendererPointers[k] = fail THEN "failed" ELSE "ready"],
             k + 1, last, fail)

\* Where the pointer named part stands in RendererPointers.
PartIndex(part) == CHOOSE k \in 1..Len(RendererPointers) :
                       RendererPointers[k] = part

RendererMembersReady ==
    [RendererMembersFrom(RendererMembers, 1, Len(RendererPointers), "none")
        EXCEPT !.initialized_ = TRUE]

\* The renderer and its GNM wrapper after a successful
\* PS5Renderer::Initialize: a new allocator that holds the frame buffers.
\* `frame` is the frame counter (0 after Initialize).
RendererReadyWith(frame, made) ==
    [current_frame_        |-> frame,
     current_frame_buffer_ |-> UMod(frame, MAX_FRAME_BUFFERS),
     frame_buffers_        |-> made.frame_buffers_,
     cmd_log               |-> <<>>,
     gpu_memory_offset     |-> made.gpu_memory_offset,
     allocs                |-> made.allocs,
     last_alloc            |-> made.last_alloc,
     renderer              |-> RendererMembersReady,
     gnm                   |-> GNMWrapperReady]

RendererReady(frame) == RendererReadyWith(frame, FramebufferAllocs)

\* PS5Renderer::PS5Renderer and a new GNMWrapper::Impl: also the state kept
\* while no renderer exists.
RendererConstructed ==
    [current_frame_        |-> Zero(U32Limbs),
     current_frame_buffer_ |-> 0,
     frame_buffers_        |-> <<>>,
     cmd_log               |-> <<>>,
     gpu_memory_offset     |-> Zero(U64Limbs),
     allocs                |-> <<>>,
     last_alloc            |-> [called |-> FALSE],
     renderer              |-> RendererMembers,
     gnm                   |-> GNMWrapperConstructed]

\* The variables of the renderer and of its GNM wrapper as one record.
RendererNow ==
    [current_frame_        |-> current_frame_,
     current_frame_buffer_ |-> current_frame_buffer_,
     frame_buffers_        |-> frame_buffers_,
     cmd_log               |-> cmd_log,
     gpu_memory_offset     |-> gpu_memory_offset,
     allocs                |-> allocs,
     last_alloc            |-> last_alloc,
     renderer              |-> renderer,
     gnm                   |-> gnm]

\* PS5Renderer::Initialize on the renderer r; fail names the part whose
\* Initialize returns false ("none": every part returns true).  The GNM
\* wrapper is a new one each time; the parts made before the failing one
\* stay, and so does the frame counter.
RendererInitializeWith(r, fail, made) ==
    IF r.renderer.initialized_ THEN [r |-> r, ret |-> TRUE, steps |-> <<>>]
    ELSE LET last == IF fail \in RendererParts THEN PartIndex(fail)
                     ELSE Len(RendererPointers)
             members == RendererMembersFrom(r.renderer, 1, last, fail)
             parts == [r EXCEPT !.renderer = members,
                                !.gnm = GNMWrapperReady,
                                !.gpu_memory_offset = Zero(U64Limbs),
                                !.allocs = <<>>,
                                !.last_alloc = [called |-> FALSE]]
         IN  IF fail \in RendererParts
             THEN [r |-> parts, ret |-> FALSE,
                   steps |-> SubSeq(RendererPointers, 1, last)]
             ELSE [r |-> [parts EXCEPT
                              !.renderer.initialized_ = made.ok,
                              !.frame_buffers_ = made.frame_buffers_,
                              !.gpu_memory_offset = made.gpu_memory_offset,
                              !.allocs = made.allocs,
                              !.last_alloc = made.last_alloc],
                   ret |-> made.ok,
                   steps |-> RendererPointers
                                 \o <<"InitializeGNM", "CreateFramebuffers">>]

RendererInitialize(r, fail) == RendererInitializeWith(r, fail, FramebufferAllocs)

\* A new renderer whose Initialize failed at the part named fail.
RendererFailed(fail) == RendererInitialize(RendererConstructed, fail).r

\* DestroyFramebuffers: every address is 0 afterwards.
DestroyFramebuffers(fbs) ==
    [i \in 1..Len(fbs) |-> [color_buffer_addr |-> Zero(U64Limbs),
                            depth_buffer_addr |-> Zero(U64Limbs)]]

\* PS5Renderer::Shutdown: the parts are shut down in the reverse order, the
\* GNM wrapper last; FreeGPUMemory gives nothing back to the allocator.
RendererShutdown(r) ==
    IF ~r.renderer.initialized_ THEN [r |-> r, steps |-> <<>>]
    ELSE [r |-> [r EXCEPT !.frame_buffers_ = DestroyFramebuffers(@),
                          !.renderer = [initialized_     |-> FALSE,
                                        gnm_wrapper_     |-> "stopped",
                                        command_buffer_  |-> "stopped",
                                        texture_manager_ |-> "stopped",
                                        shader_compiler_ |-> "stopped"],
                          !.gnm = GNMWrapperShutdown(@).g],
          steps |-> <<"WaitForIdle", "DestroyFramebuffers", "shader_compiler_",
                      "texture_manager_", "command_buffer_", "ShutdownGNM",
                      "gnm_wrapper_">>]

RendererIs(r) ==
    /\ current_frame_ = r.current_frame_
    /\ current_frame_buffer_ = r.current_frame_buffer_
    /\ frame_buffers_ = r.frame_buffers_
    /\ cmd_log = r.cmd_log
    /\ gpu_memory_offset = r.gpu_memory_offset
    /\ allocs = r.allocs
    /\ last_alloc = r.last_alloc
    /\ renderer = r.renderer
    /\ gnm = r.gnm

RendererBecomes(r) ==
    /\ current_frame_' = r.current_frame_
    /\ current_frame_buffer_' = r.current_frame_buffer_
    /\ frame_buffers_' = r.frame_buffers_
    /\ cmd_log' = r.cmd_log
    /\ gpu_memory_offset' = r.gpu_memory_offset
    /\ allocs' = r.allocs
    /\ last_alloc' = r.last_alloc
    /\ renderer' = r.renderer
    /\ gnm' = r.gnm

\* Bound: the number of calls recorded in cmd_log over a renderer's life.
MaxLog == 8

\* Bound: how many BeginFrame calls before the counter wraps the second
\* start state lies.
WrapDistance == 2

\* The frame counter of a renderer after Initialize (0) and after
\* 2^32 - WrapDistance calls of BeginFrame.
StartFrames == { Zero(U32Limbs), UNeg(FromNat(WrapDistance, U32Limbs)) }

\* current_frame_++
NextFrame(f) == UAdd(f, FromNat(1, U32Limbs))

\* current_frame_ % MAX_FRAME_BUFFERS, computed in size_t.
FrameBufferOf(f) == UMod(ZeroExtend(f, U64Limbs), MAX_FRAME_BUFFERS)

\* PS5Renderer::BeginFrame
RendererBeginFrame ==
    /\ current_frame_' = NextFrame(current_frame_)
    /\ current_frame_buffer_' = FrameBufferOf(current_frame_')
    /\ cmd_log' = Append(cmd_log, <<"Begin">>)
    /\ UNCHANGED <<frame_buffers_, renderer>>

\* PS5Renderer::EndFrame
RendererEndFrame ==
    /\ cmd_log' = Append(cmd_log, <<"End">>)
    /\ UNCHANGED <<current_frame_, current_frame_buffer_, frame_buffers_,
                   renderer>>

\* Mutant of PresentCalls: the frame buffer is presented before the command
\* buffer is submitted.
PresentBeforeSubmit(fb) ==
    << <<"Present", frame_buffers_[fb + 1].color_buffer_addr>>, <<"Submit">> >>

\* What Present does: SubmitCommandBuffer, then GNMWrapper::Present of the
\* current frame buffer's colour buffer (the index is C++'s, from 0).
PresentCalls(fb) ==
    << <<"Submit">>, <<"Present", frame_buffers_[fb + 1].color_buffer_addr>> >>

\* PS5Renderer::Present
RendererPresent ==
    /\ cmd_log' = cmd_log \o PresentCalls(current_frame_buffer_)
    /\ UNCHANGED <<current_frame_, current_frame_buffer_, frame_buffers_,
                   renderer>>

----------------------------------------------------------------------------
(* PS5Application: members, command line, subsystems *)

\* A subsystem pointer is "null", or points to an object whose Initialize
\* returned false ("failed") or true ("ready").
Subsystems ==
    <<"renderer_", "audio_manager_", "input_manager_", "frontend_", "eden_core_">>

\* PS5Application::PS5Application and the member initializers.
\* current_fps_ is kept as <<frames, milliseconds>>, the two operands of the
\* division that computes it.
AppConstructed ==
    [initialized_ |-> FALSE, shutdown_requested_ |-> FALSE,
     game_loaded_ |-> FALSE, emulation_running_ |-> FALSE,
     emulation_paused_ |-> FALSE, current_fps_ |-> <<0, 1000>>,
     config_path_ |-> "/data/eden/config", game_path_ |-> "",
     renderer_ |-> "null", audio_manager_ |-> "null",
     input_manager_ |-> "null", frontend_ |-> "null", eden_core_ |-> "null"]

GamePaths == {"g1", "g2"}

\* argv[1 .. argc - 1] of the application's start: no argument, a game, a
\* request for help.
Argvs == { <<>>, <<"--game", "g1">>, <<"--help">> }

\* What an argument can be: an option, or some other text.
Tokens == {"--game", "--config", "--help", "-h", "g1", "g2"}

\* Every command line of up to MaxArgs tokens is tried.
MaxArgs == 2

\* Longer command lines: options given twice, with and without a value,
\* before and after a request for help.
LongCmdLines ==
    { <<"--game", "g1", "--game", "g2">>,
      <<"--game", "g1", "--game">>,
      <<"--config", "g1", "--config", "g2", "--config">>,
      <<"--game", "g1", "--config", "g2", "--game", "g2", "--config", "g1">>,
      <<"--game", "g1", "--help", "--game", "g2">>,
      <<"g1", "--config", "g2", "-h">>,
      <<"--game", "--help", "--config", "-h">> }

\* argv[1 .. argc - 1] of the application's start.
CmdLines == UNION {[1..n -> Tokens] : n \in 0..MaxArgs} \cup LongCmdLines

\* Mutant of ProcessCommandLineFrom: a path that was given is not replaced
\* by a later one.
RECURSIVE ProcessCommandLineFirstWins(_, _, _)
ProcessCommandLineFirstWins(argv, i, st) ==
    IF i > Len(argv) THEN st
    ELSE IF argv[i] = "--game" /\ i + 1 <= Len(argv)
    THEN ProcessCommandLineFirstWins(argv, i + 2,
             IF st.game_path_ = "" THEN [st EXCEPT !.game_path_ = argv[i + 1]]
             ELSE st)
    ELSE IF argv[i] = "--config" /\ i + 1 <= Len(argv)
    THEN ProcessCommandLineFirstWins(argv, i + 2,
                                     [st EXCEPT !.config_path_ = argv[i + 1]])
    ELSE IF argv[i] = "--help" \/ argv[i] = "-h"
    THEN [st EXCEPT !.ok = FALSE]
    ELSE ProcessCommandLineFirstWins(argv, i + 1, st)

\* PS5Application::ProcessCommandLine from argument i on.
RECURSIVE ProcessCommandLineFrom(_, _, _)
ProcessCommandLineFrom(argv, i, st) ==
    IF i > Len(argv) THEN st
    ELSE IF argv[i] = "--game" /\ i + 1 <= Len(argv)
    THEN ProcessCommandLineFrom(argv, i + 2,
                                [st EXCEPT !.game_path_ = argv[i + 1]])
    ELSE IF argv[i] = "--config" /\ i + 1 <= Len(argv)
    THEN ProcessCommandLineFrom(argv, i + 2,
                                [st EXCEPT !.config_path_ = argv[i + 1]])
    ELSE IF argv[i] = "--help" \/ argv[i] = "-h"
    THEN [st EXCEPT !.ok = FALSE]
    ELSE ProcessCommandLineFrom(argv, i + 1, st)

ProcessCommandLine(a, argv) ==
    ProcessCommandLineFrom(argv, 1, [ok |-> TRUE, game_path_ |-> a.game_path_,
                                     config_path_ |-> a.config_path_])

\* The calls InitializeSubsystems makes for subsystems k to last of
\* application a: the pointer is assigned a new object, which destroys the
\* object it held, if any ("reset"), and Initialize is called on the new one.
RECURSIVE InitializeCallsFrom(_, _, _)
InitializeCallsFrom(a, k, last) ==
    IF k > last THEN <<>>
    ELSE (IF a[Subsystems[k]] # "null"
          THEN << <<Subsystems[k], "reset">> >> ELSE <<>>)
         \o << <<Subsystems[k], "Initialize">> >>
         \o InitializeCallsFrom(a, k + 1, last)

\* PS5Application::InitializeSubsystems; subsystem number fail_at is the
\* first whose Initialize returns false (0: none).  Each subsystem up to
\* that one is created anew; the pointers after it are left as they were.
InitializeSubsystems(a, fail_at) ==
    LET last == IF fail_at = 0 THEN Len(Subsystems) ELSE fail_at
        made == [f \in DOMAIN a |->
                    IF \E k \in 1..last : Subsystems[k] = f
                    THEN IF fail_at # 0 /\ Subsystems[fail_at] = f
                         THEN "failed" ELSE "ready"
                    ELSE a[f]]
    IN  [app   |-> made,
         ok    |-> fail_at = 0,
         made  |-> last,
         calls |-> InitializeCallsFrom(a, 1, last)]

\* PS5Application::Initialize
AppInitialize(a, argv, fail_at) ==
    IF a.initialized_ THEN [app |-> a, ret |-> TRUE, calls |-> <<>>, made |-> 0]
    ELSE LET cl  == ProcessCommandLine(a, argv)
             a1  == [a EXCEPT !.game_path_ = cl.game_path_,
                              !.config_path_ = cl.config_path_]
             sub == InitializeSubsystems(a1, fail_at)
         IN  IF ~cl.ok
             THEN [app |-> a1, ret |-> FALSE, calls |-> <<>>, made |-> 0]
             ELSE IF ~sub.ok
             THEN [app |-> sub.app, ret |-> FALSE,
                   calls |-> << <<"this", "LoadSettings">> >> \o sub.calls,
                   made |-> sub.made]
             ELSE [app |-> [sub.app EXCEPT !.initialized_ = TRUE],
                   ret |-> TRUE, calls |-> << <<"this", "LoadSettings">> >> \o sub.calls,
                   made |-> sub.made]

\* Mutant of StopEmulation: emulation_paused_ is left as it is.
StopEmulationKeepingPause(a) ==
    IF ~a.emulation_running_ THEN [app |-> a, calls |-> <<>>]
    ELSE [app   |-> [a EXCEPT !.emulation_running_ = FALSE],
          calls |-> IF a.eden_core_ # "null"
                    THEN << <<"eden_core_", "StopEmulation">> >> ELSE <<>>]

\* PS5Application::StopEmulation
StopEmulation(a) ==
    IF ~a.emulation_running_ THEN [app |-> a, calls |-> <<>>]
    ELSE [app   |-> [a EXCEPT !.emulation_running_ = FALSE,
                              !.emulation_paused_ = FALSE],
          calls |-> IF a.eden_core_ # "null"
                    THEN << <<"eden_core_", "StopEmulation">> >> ELSE <<>>]

\* Mutant of UnloadGame: the core unloads the game first and the emulation
\* is stopped after that.
UnloadGameBeforeStop(a) ==
    IF ~a.game_loaded_ THEN [app |-> a, calls |-> <<>>]
    ELSE LET stop == IF a.emulation_running_ THEN StopEmulation(a)
                     ELSE [app |-> a, calls |-> <<>>]
         IN  [app   |-> [stop.app EXCEPT !.game_loaded_ = FALSE,
                                         !.game_path_ = ""],
              calls |-> (IF a.eden_core_ # "null"
                         THEN << <<"eden_core_", "UnloadGame">> >> ELSE <<>>)
                        \o stop.calls]

\* PS5Application::UnloadGame
UnloadGame(a) ==
    IF ~a.game_loaded_ THEN [app |-> a, calls |-> <<>>]
    ELSE LET stop == IF a.emulation_running_ THEN StopEmulation(a)
                     ELSE [app |-> a, calls |-> <<>>]
         IN  [app   |-> [stop.app EXCEPT !.game_loaded_ = FALSE,
                                         !.game_path_ = ""],
              calls |-> stop.calls \o
                        (IF a.eden_core_ # "null"
                         THEN << <<"eden_core_", "UnloadGame">> >> ELSE <<>>)]

\* Mutant of LoadGame: a running emulation of the game loaded before is
\* stopped when the new game has been loaded.
LoadGameStoppingPrevious(a, game_path, core_ok) ==
    IF a.eden_core_ = "null" THEN [app |-> a, ret |-> FALSE, calls |-> <<>>]
    ELSE IF core_ok
    THEN [app |-> [a EXCEPT !.game_loaded_ = TRUE, !.game_path_ = game_path,
                            !.emulation_running_ = FALSE,
                            !.emulation_paused_ = FALSE],
          ret |-> TRUE, calls |-> << <<"eden_core_", "LoadGame">> >>]
    ELSE [app |-> a, ret |-> FALSE,
          calls |-> << <<"eden_core_", "LoadGame">> >>]

\* PS5Application::LoadGame; core_ok is what the core's LoadGame returns.
LoadGame(a, game_path, core_ok) ==
    IF a.eden_core_ = "null" THEN [app |-> a, ret |-> FALSE, calls |-> <<>>]
    ELSE IF core_ok
    THEN [app |-> [a EXCEPT !.game_loaded_ = TRUE, !.game_path_ = game_path],
          ret |-> TRUE, calls |-> << <<"eden_core_", "LoadGame">> >>]
    ELSE [app |-> a, ret |-> FALSE,
          calls |-> << <<"eden_core_", "LoadGame">> >>]

\* PS5Application::StartEmulation; core_ok is what the core's
\* StartEmulation returns.
StartEmulation(a, core_ok) ==
    IF ~a.game_loaded_ \/ a.emulation_running_
    THEN [app |-> a, calls |-> <<>>]
    ELSE IF a.eden_core_ = "null" THEN [app |-> a, calls |-> <<>>]
    ELSE [app   |-> IF core_ok
                    THEN [a EXCEPT !.emulation_running_ = TRUE,
                                   !.emulation_paused_ = FALSE]
                    ELSE a,
          calls |-> << <<"eden_core_", "StartEmulation">> >>]

\* PS5Application::PauseEmulation
PauseEmulation(a) ==
    IF ~a.emulation_running_ \/ a.emulation_paused_ THEN a
    ELSE [a EXCEPT !.emulation_paused_ = TRUE]

\* PS5Application::ResumeEmulation
ResumeEmulation(a) ==
    IF ~a.emulation_running_ \/ ~a.emulation_paused_ THEN a
    ELSE [a EXCEPT !.emulation_paused_ = FALSE]

\* PS5Application::ShutdownSubsystems: Shutdown and reset of every pointer
\* that is not null, from the Eden core back to the renderer.
RECURSIVE ShutdownSubsystemsFrom(_, _)
ShutdownSubsystemsFrom(a, k) ==
    IF k = 0 THEN [app |-> a, calls |-> <<>>]
    ELSE LET f    == Subsystems[k]
             rest == ShutdownSubsystemsFrom([a EXCEPT ![f] = "null"], k - 1)
         IN  IF a[f] = "null" THEN ShutdownSubsystemsFrom(a, k - 1)
             ELSE [app |-> rest.app,
                   calls |-> << <<f, "Shutdown">>, <<f, "reset">> >> \o rest.calls]

ShutdownSubsystems(a) == ShutdownSubsystemsFrom(a, Len(Subsystems))

\* PS5Application::Shutdown
AppShutdown(a) ==
    IF ~a.initialized_ THEN [app |-> a, calls |-> <<>>]
    ELSE LET stop   == IF a.emulation_running_ THEN StopEmulation(a)
                       ELSE [app |-> a, calls |-> <<>>]
             unload == IF stop.app.game_loaded_ THEN UnloadGame(stop.app)
                       ELSE [app |-> stop.app, calls |-> <<>>]
             subs   == ShutdownSubsystems(unload.app)
         IN  [app   |-> [subs.app EXCEPT !.initialized_ = FALSE],
              calls |-> stop.calls \o unload.calls
                        \o << <<"this", "SaveSettings">> >>
                        \o subs.calls]

----------------------------------------------------------------------------
(* PS5Application: Run and MainLoop, one step per call of the loop body *)

\* std::chrono::microseconds(16667)
target_frame_time == 16667

\* fps_elapsed.count() >= 1000
FpsWindowMs == 1000

\* Nanoseconds from frame_start to frame_end (steady_clock counts
\* nanoseconds): fast frames, frames within a microsecond of the target,
\* a frame of exactly the target, and a frame of one second.
WorkDurations == {999, 16666999, 16667000, 1000000000}

\* Nanoseconds by which sleep_for may oversleep.
Oversleep == {0, 2500}

\* The calls PS5Renderer makes per frame: Begin, End, Submit, Present.
CallsPerFrame == Len(PresentCalls(0)) + 2

\* MainLoop's locals when it is entered, and no frame timed yet.
LoopEntered ==
    [frame_count |-> 0, since_fps_ns |-> 0, iters |-> 0, work_ns |-> 0,
     frame_duration_us |-> 0, sleep_us |-> 0, slept_ns |-> 0]

NotRun == [state |-> "none", value |-> 0]

Call(object, method) == << <<object, method>> >>

\* PS5Application::Run up to the call of MainLoop.  load_ok and start_ok
\* are what the core's LoadGame and StartEmulation return.
Run(load_ok, start_ok) ==
    /\ pc = "idle"
    /\ IF ~app.initialized_
       THEN /\ run_result' = [state |-> "returned", value |-> -1]
            /\ trace' = <<>>
            /\ UNCHANGED <<app, pc, loop>>
       ELSE LET load  == IF app.game_path_ # ""
                         THEN LoadGame(app, app.game_path_, load_ok)
                         ELSE [app |-> app, ret |-> FALSE, calls |-> <<>>]
                start == IF load.ret THEN StartEmulation(load.app, start_ok)
                         ELSE [app |-> load.app, calls |-> <<>>]
            IN  /\ app' = start.app
                /\ trace' = load.calls \o start.calls
                /\ pc' = "loop_test"
                /\ loop' = LoopEntered
                /\ run_result' = [state |-> "running", value |-> 0]
    /\ UNCHANGED <<frameVars, gpuVars, lifeVars, signalled>>
    /\ UNCHANGED <<pluginVars, inputVars>>

\* while (!shutdown_requested_): the loop is left, MainLoop and Run return.
LoopExit ==
    /\ pc = "loop_test"
    /\ app.shutdown_requested_
    /\ pc' = "idle"
    /\ run_result' = [state |-> "returned", value |-> 0]
    /\ UNCHANGED <<app, loop, trace, frameVars, gpuVars, lifeVars, signalled>>
    /\ UNCHANGED <<pluginVars, inputVars, mainVars>>

\* Mutant of LoopEnter: the loop condition does not read shutdown_requested_.
LoopEnterUnconditionally ==
    /\ pc = "loop_test"
    /\ Len(cmd_log) + CallsPerFrame <= MaxLog
    /\ pc' = "input_update"
    /\ loop' = [loop EXCEPT !.iters = @ + 1]
    /\ UNCHANGED <<app, trace, run_result, frameVars, gpuVars, lifeVars,
                   signalled>>
    /\ UNCHANGED <<pluginVars, inputVars, mainVars>>

\* while (!shutdown_requested_): an iteration starts (frame_start is taken).
LoopEnter ==
    /\ pc = "loop_test"
    /\ ~app.shutdown_requested_
    /\ Len(cmd_log) + CallsPerFrame <= MaxLog
    /\ pc' = "input_update"
    /\ loop' = [loop EXCEPT !.iters = @ + 1]
    /\ UNCHANGED <<app, trace, run_result, frameVars, gpuVars, lifeVars,
                   signalled>>
    /\ UNCHANGED <<pluginVars, inputVars, mainVars>>

\* One step of the loop body that may call `method` of subsystem `object`.
Step(at, doit, object, method, next) ==
    /\ pc = at
    /\ trace' = IF doit THEN trace \o Call(object, method) ELSE trace
    /\ pc' = next
    /\ UNCHANGED <<app, loop, run_result, frameVars, gpuVars, lifeVars,
                   signalled>>
    /\ UNCHANGED <<pluginVars, inputVars, mainVars>>

InputUpdate ==
    Step("input_update", app.input_manager_ # "null",
         "input_manager_", "Update", "frontend_update")

FrontendUpdate ==
    Step("frontend_update", app.frontend_ # "null",
         "frontend_", "Update", "core_update")

\* Mutant of CoreUpdate: the core is updated whether or not the emulation
\* is paused.
CoreUpdateWhilePaused ==
    Step("core_update", app.eden_core_ # "null" /\ app.emulation_running_,
         "eden_core_", "Update", "begin_frame")

CoreUpdate ==
    Step("core_update",
         app.eden_core_ # "null" /\ app.emulation_running_
             /\ ~app.emulation_paused_,
         "eden_core_", "Update", "begin_frame")

\* if (renderer_) { renderer_->BeginFrame(); ...
LoopBeginFrame ==
    /\ pc = "begin_frame"
    /\ IF app.renderer_ # "null"
       THEN /\ RendererBeginFrame
            /\ trace' = trace \o Call("renderer_", "BeginFrame")
            /\ pc' = "core_render"
       ELSE /\ pc' = "frame_limit"
            /\ UNCHANGED <<trace, frameVars>>
    /\ UNCHANGED <<app, loop, run_result, gpuVars, lifeVars, signalled>>
    /\ UNCHANGED <<pluginVars, inputVars, mainVars>>

CoreRender ==
    Step("core_render", app.eden_core_ # "null" /\ app.emulation_running_,
         "eden_core_", "Render", "frontend_render")

FrontendRender ==
    Step("frontend_render", app.frontend_ # "null",
         "frontend_", "Render", "end_frame")

LoopEndFrame ==
    /\ pc = "end_frame"
    /\ RendererEndFrame
    /\ trace' = trace \o Call("renderer_", "EndFrame")
    /\ pc' = "present"
    /\ UNCHANGED <<app, loop, run_result, gpuVars, lifeVars, signalled>>
    /\ UNCHANGED <<pluginVars, inputVars, mainVars>>

LoopPresent ==
    /\ pc = "present"
    /\ RendererPresent
    /\ trace' = trace \o Call("renderer_", "Present")
    /\ pc' = "frame_limit"
    /\ UNCHANGED <<app, loop, run_result, gpuVars, lifeVars, signalled>>
    /\ UNCHANGED <<pluginVars, inputVars, mainVars>>

\* Mutant of SleepRequest: the remainder is computed in whole milliseconds.
SleepRequestInMilliseconds(frame_duration) ==
    IF frame_duration < target_frame_time
    THEN (target_frame_time \div 1000 - frame_duration \div 1000) * 1000
    ELSE 0

\* The sleep of the frame limiter: the microseconds asked of sleep_for
\* (0: sleep_for is not called) for a frame of frame_duration microseconds.
SleepRequest(frame_duration) ==
    IF frame_duration < target_frame_time
    THEN target_frame_time - frame_duration
    ELSE 0

\* The rest of the loop body: the FPS counter and the frame limiter.  The
\* frame took work_ns from frame_start to now and frame_end; sleep_for
\* returns over_ns later than asked.
FrameLimit(work_ns, over_ns) ==
    /\ pc = "frame_limit"
    /\ LET frame_count    == loop.frame_count + 1
           fps_elapsed    == (loop.since_fps_ns + work_ns) \div 1000000
           window         == fps_elapsed >= FpsWindowMs
           frame_duration == work_ns \div 1000
           sleep_us       == SleepRequest(frame_duration)
           slept_ns       == IF sleep_us > 0 THEN sleep_us * 1000 + over_ns
                             ELSE 0
       IN  /\ app' = IF window
                     THEN [app EXCEPT !.current_fps_ =
                                          <<frame_count, fps_elapsed>>]
                     ELSE app
           /\ loop' = [loop EXCEPT
                  !.frame_count = IF window THEN 0 ELSE frame_count,
                  !.since_fps_ns = (IF window THEN 0
                                    ELSE loop.since_fps_ns + work_ns)
                                   + slept_ns,
                  !.work_ns = work_ns,
                  !.frame_duration_us = frame_duration,
                  !.sleep_us = sleep_us,
                  !.slept_ns = slept_ns]
    /\ pc' = "loop_test"
    /\ UNCHANGED <<trace, run_result, frameVars, gpuVars, lifeVars, signalled>>
    /\ UNCHANGED <<pluginVars, inputVars, mainVars>>

\* PS5Application::RequestShutdown: called from SignalHandler, at any
\* point of the main thread.
RequestShutdown ==
    /\ app' = [app EXCEPT !.shutdown_requested_ = TRUE]
    /\ UNCHANGED <<pc, loop, trace, run_result, frameVars, gpuVars, lifeVars,
                   signalled>>
    /\ UNCHANGED <<pluginVars, inputVars, mainVars>>

----------------------------------------------------------------------------
(* PS5Application: the public operations, called while Run is not active *)

CallInitialize(argv, fail_at) ==
    /\ pc = "idle"
    /\ LET r == AppInitialize(app, argv, fail_at)
       IN  /\ app' = r.app
           /\ trace' = r.calls
           /\ IF r.made = 0 THEN UNCHANGED <<frameVars, gpuVars>>
              ELSE IF r.app.renderer_ = "ready"
              THEN RendererBecomes(RendererReady(Zero(U32Limbs)))
              ELSE \E part \in RendererParts :
                       RendererBecomes(RendererFailed(part))
    /\ UNCHANGED <<pc, loop, run_result, lifeVars, signalled>>
    /\ UNCHANGED <<pluginVars, inputVars>>

CallShutdown ==
    /\ pc = "idle"
    /\ LET r == AppShutdown(app)
       IN  /\ app' = r.app
           /\ trace' = r.calls
           /\ IF app.initialized_
              THEN RendererBecomes(RendererConstructed)
              ELSE UNCHANGED <<frameVars, gpuVars>>
    /\ UNCHANGED <<pc, loop, run_result, lifeVars, signalled>>
    /\ UNCHANGED <<pluginVars, inputVars>>

CallLoadGame(game_path, core_ok) ==
    /\ pc = "idle"
    /\ LET r == LoadGame(app, game_path, core_ok)
       IN  app' = r.app /\ trace' = r.calls
    /\ UNCHANGED <<pc, loop, run_result, frameVars, gpuVars, lifeVars,
                   signalled>>
    /\ UNCHANGED <<pluginVars, inputVars, mainVars>>

CallUnloadGame ==
    /\ pc = "idle"
    /\ LET r == UnloadGame(app)
       IN  app' = r.app /\ trace' = r.calls
    /\ UNCHANGED <<pc, loop, run_result, frameVars, gpuVars, lifeVars,
                   signalled>>
    /\ UNCHANGED <<pluginVars, inputVars, mainVars>>

CallStartEmulation(core_ok) ==
    /\ pc = "idle"
    /\ LET r == StartEmulation(app, core_ok)
       IN  app' = r.app /\ trace' = r.calls
    /\ UNCHANGED <<pc, loop, run_result, frameVars, gpuVars, lifeVars,
                   signalled>>
    /\ UNCHANGED <<pluginVars, inputVars, mainVars>>

CallPauseEmulation ==
    /\ pc = "idle"
    /\ app' = PauseEmulation(app)
    /\ trace' = <<>>
    /\ UNCHANGED <<pc, loop, run_result, frameVars, gpuVars, lifeVars,
                   signalled>>
    /\ UNCHANGED <<pluginVars, inputVars, mainVars>>

CallResumeEmulation ==
    /\ pc = "idle"
    /\ app' = ResumeEmulation(app)
    /\ trace' = <<>>
    /\ UNCHANGED <<pc, loop, run_result, frameVars, gpuVars, lifeVars,
                   signalled>>
    /\ UNCHANGED <<pluginVars, inputVars, mainVars>>

CallStopEmulation ==
    /\ pc = "idle"
    /\ LET r == StopEmulation(app)
       IN  app' = r.app /\ trace' = r.calls
    /\ UNCHANGED <<pc, loop, run_result, frameVars, gpuVars, lifeVars,
                   signalled>>
    /\ UNCHANGED <<pluginVars, inputVars, mainVars>>

----------------------------------------------------------------------------
(* Operations called directly on a renderer and on a GNM wrapper *)

BeginFrame ==
    /\ Len(cmd_log) < MaxLog
    /\ RendererBeginFrame
    /\ UNCHANGED <<gpuVars, lifeVars, signalled, appVars>>
    /\ UNCHANGED <<pluginVars, inputVars, mainVars>>

EndFrame ==
    /\ Len(cmd_log) < MaxLog
    /\ RendererEndFrame
    /\ UNCHANGED <<gpuVars, lifeVars, signalled, appVars>>
    /\ UNCHANGED <<pluginVars, inputVars, mainVars>>

Present ==
    /\ Len(cmd_log) < MaxLog
    /\ RendererPresent
    /\ UNCHANGED <<gpuVars, lifeVars, signalled, appVars>>
    /\ UNCHANGED <<pluginVars, inputVars, mainVars>>

\* GNMWrapper::AllocateGPUMemory
AllocateGPUMemory(size, alignment) ==
    /\ Len(allocs) < MaxAllocs
    /\ LET r == AllocRecord(gpu_memory_offset, size, alignment)
       IN  /\ gpu_memory_offset' =
                  AllocateMemory(gpu_memory_offset, size, alignment).offset
           /\ allocs' = Append(allocs, [address |-> r.address, size |-> size])
           /\ last_alloc' = r
    /\ UNCHANGED <<gnm, frameVars, lifeVars, signalled, appVars>>
    /\ UNCHANGED <<pluginVars, inputVars, mainVars>>

\* A renderer, or a GNM wrapper, that no application holds.
OnItsOwn == app.renderer_ = "null"

\* A call of Initialize or Shutdown that left the renderer as r.r having
\* taken r.steps.
RendererCalled(r) ==
    /\ OnItsOwn
    /\ RendererBecomes(r.r)
    /\ last_steps' = r.steps
    /\ UNCHANGED <<audio_manager, signalled, appVars>>
    /\ UNCHANGED <<pluginVars, inputVars, mainVars>>

CallRendererInitialize(fail) ==
    LET r == RendererInitialize(RendererNow, fail) IN RendererCalled(r)

CallRendererShutdown ==
    LET r == RendererShutdown(RendererNow) IN RendererCalled(r)

\* A call of Initialize or Shutdown on a GNM wrapper no renderer made.
GNMWrapperCalled(r) ==
    /\ OnItsOwn
    /\ renderer.gnm_wrapper_ = "null"
    /\ gnm' = r.g
    /\ last_steps' = r.steps
    /\ UNCHANGED <<gpu_memory_offset, allocs, last_alloc, audio_manager,
                   signalled>>
    /\ UNCHANGED <<frameVars, appVars, pluginVars, inputVars, mainVars>>

CallGNMWrapperInitialize ==
    LET r == GNMWrapperInitialize(gnm) IN GNMWrapperCalled(r)

CallGNMWrapperShutdown ==
    LET r == GNMWrapperShutdown(gnm) IN GNMWrapperCalled(r)

----------------------------------------------------------------------------
(* Text.  A std::string is the sequence of its bytes; the characters of a *)
(* literal are turned into their ASCII codes.                              *)

\* The printable ASCII characters, from code 32 (space) to code 126 (the
\* grave accent, code 96, by its name).
Printable ==
    <<" ", "!", "\"", "#", "$", "%", "&", "'", "(", ")", "*", "+", ",",
      "-", ".", "/", "0", "1", "2", "3", "4", "5", "6", "7", "8", "9", ":",
      ";", "<", "=", ">", "?", "@", "A", "B", "C", "D", "E", "F", "G", "H",
      "I", "J", "K", "L", "M", "N", "O", "P", "Q", "R", "S", "T", "U", "V",
      "W", "X", "Y", "Z", "[", "\\", "]", "^", "_", "grave", "a", "b", "c",
      "d", "e", "f", "g", "h", "i", "j", "k", "l", "m", "n", "o", "p", "q",
      "r", "s", "t", "u", "v", "w", "x", "y", "z", "{", "|", "}", "~">>

Code(c) == 31 + CHOOSE i \in 1..Len(Printable) : Printable[i] = c

Bytes(chars) == [i \in 1..Len(chars) |-> Code(chars[i])]

\* std::to_string of an int: decimal digits, a minus sign if negative.
RECURSIVE Digits(_)
Digits(n) ==
    IF n < 10 THEN <<Code("0") + n>>
    ELSE Append(Digits(n \div 10), Code("0") + (n % 10))

to_string(n) == IF n < 0 THEN <<Code("-")>> \o Digits(-n) ELSE Digits(n)

\* std::string(const char*): the bytes before the first NUL.
CString(buffer) ==
    LET nuls == {i \in 1..Len(buffer) : buffer[i] = 0}
    IN  IF nuls = {} THEN buffer
        ELSE SubSeq(buffer, 1, (CHOOSE i \in nuls : \A j \in nuls : i <= j) - 1)

----------------------------------------------------------------------------
(* EtaHENPlugin *)

DefaultPluginName ==
    Bytes(<<"E", "d", "e", "n", " ", "N", "i", "n", "t", "e", "n", "d",
            "o", " ", "S", "w", "i", "t", "c", "h", " ", "E", "m", "u",
            "l", "a", "t", "o", "r">>)

DefaultPluginVersion ==
    Bytes(<<"1", ".", "0", ".", "0", "-", "P", "S", "5">>)

REGISTER_PLUGIN ==
    Bytes(<<"R", "E", "G", "I", "S", "T", "E", "R", "_", "P", "L", "U",
            "G", "I", "N", ":">>)

UNREGISTER_PLUGIN ==
    Bytes(<<"U", "N", "R", "E", "G", "I", "S", "T", "E", "R", "_", "P",
            "L", "U", "G", "I", "N", ":">>)

JAILBREAK ==
    Bytes(<<"J", "A", "I", "L", "B", "R", "E", "A", "K", ":">>)

ENABLE_DATA_ACCESS ==
    Bytes(<<"E", "N", "A", "B", "L", "E", "_", "D", "A", "T", "A", "_",
            "A", "C", "C", "E", "S", "S">>)

START_FTP ==
    Bytes(<<"S", "T", "A", "R", "T", "_", "F", "T", "P", ":">>)

STOP_FTP ==
    Bytes(<<"S", "T", "O", "P", "_", "F", "T", "P">>)

LOAD_ELF ==
    Bytes(<<"L", "O", "A", "D", "_", "E", "L", "F", ":">>)

GET_VERSION ==
    Bytes(<<"G", "E", "T", "_", "V", "E", "R", "S", "I", "O", "N">>)

NotConnected ==
    Bytes(<<"N", "o", "t", " ", "C", "o", "n", "n", "e", "c", "t", "e",
            "d">>)

Unknown ==
    Bytes(<<"U", "n", "k", "n", "o", "w", "n">>)

\* The plugin after its constructor.
PluginConstructed ==
    [initialized_ |-> FALSE, etahen_available_ |-> FALSE,
     connected_ |-> FALSE, registered_ |-> FALSE,
     plugin_name_ |-> DefaultPluginName,
     plugin_version_ |-> DefaultPluginVersion,
     ipc_socket_ |-> -1, etahen_port_ |-> 9028,
     ftp_server_running_ |-> FALSE, klog_server_running_ |-> FALSE,
     ps5_debug_enabled_ |-> FALSE, cheats_enabled_ |-> FALSE]

\* One call of the socket interface: what was called, on which descriptor,
\* the bytes and the length handed over (send) or the bytes that arrived
\* and the room offered (recv), and what the call returned.
SockCall(call, fd, data, len, ret) ==
    [call |-> call, fd |-> fd, data |-> data, len |-> len, ret |-> ret]

\* The descriptors socket() has returned and close() has not been given.
OpenFds(log) ==
    {log[i].fd : i \in {j \in 1..Len(log) :
        /\ log[j].call = "socket"
        /\ log[j].ret >= 0
        /\ \A k \in (j + 1)..Len(log) :
               ~(log[k].call = "close" /\ log[k].fd = log[j].fd)}}

\* How many socket calls the history holds before no further plugin call
\* is started.
MaxSock == 4

\* The descriptors socket() can return.
Fds == {3, 4}

\* What socket() can return now: -1, or a descriptor that is not open.
SocketResults == {-1} \cup (Fds \ OpenFds(sock_log))

\* char buffer[1024]
RecvBuffer == 1024

\* What recv can do: fail, or deliver bytes (none: the peer has closed).
RecvOutcomes ==
    { [ret |-> -1, data |-> <<>>],
      [ret |-> 0, data |-> <<>>],
      [ret |-> 2, data |-> Bytes(<<"O", "K">>)],
      [ret |-> 3, data |-> <<Code("5"), 0, Code("0")>>] }

\* What send can do: fail, take all but the last byte, or take all.
SendOutcomes == {"fail", "short", "full"}

SendReturn(outcome, len) ==
    CASE outcome = "fail"  -> -1
      [] outcome = "short" -> len - 1
      [] OTHER             -> len

\* What the daemon's side does to one command: x.send, x.recv.
Exchanges == [send : SendOutcomes, recv : RecvOutcomes]

\* Mutant of SendIPCCommand: a failed send is logged but the function goes
\* on to receive.
SendIPCCommandIgnoringSendFailure(p, log, command, x) ==
    IF p.ipc_socket_ = -1
    THEN [ret |-> FALSE, response |-> <<>>, log |-> log]
    ELSE LET sent == SendReturn(x.send, Len(command))
             log1 == Append(log, SockCall("send", p.ipc_socket_, command,
                                          Len(command), sent))
             log2 == Append(log1, SockCall("recv", p.ipc_socket_, x.recv.data,
                                           RecvBuffer - 1, x.recv.ret))
         IN  IF x.recv.ret < 0
             THEN [ret |-> FALSE, response |-> <<>>, log |-> log2]
             ELSE [ret |-> TRUE,
                   response |-> CString(SubSeq(x.recv.data, 1, x.recv.ret)),
                   log |-> log2]

\* EtaHENPlugin::SendIPCCommand: send(ipc_socket_, command.c_str(),
\* command.length(), 0), then recv into buffer; response is set only when
\* both succeed.
SendIPCCommand(p, log, command, x) ==
    IF p.ipc_socket_ = -1
    THEN [ret |-> FALSE, response |-> <<>>, log |-> log]
    ELSE LET sent == SendReturn(x.send, Len(command))
             log1 == Append(log, SockCall("send", p.ipc_socket_, command,
                                          Len(command), sent))
             log2 == Append(log1, SockCall("recv", p.ipc_socket_, x.recv.data,
                                           RecvBuffer - 1, x.recv.ret))
         IN  IF sent < 0
             THEN [ret |-> FALSE, response |-> <<>>, log |-> log1]
             ELSE IF x.recv.ret < 0
             THEN [ret |-> FALSE, response |-> <<>>, log |-> log2]
             ELSE [ret |-> TRUE,
                   response |-> CString(SubSeq(x.recv.data, 1, x.recv.ret)),
                   log |-> log2]

\* Both branches of InitializeIPC return true.
InitializeIPC == TRUE

\* Mutant of ConnectToEtaHEN: the development build reports the simulated
\* connection as made.
ConnectToEtaHENSimulatedAsMade(p, log, fd, connect_ok) ==
    IF PS5_BUILD
    THEN LET log1 == Append(log, SockCall("socket", fd, <<>>, 0, fd))
             log2 == Append(log1, SockCall("connect", fd, <<>>, 0,
                                           IF connect_ok THEN 0 ELSE -1))
         IN  IF fd < 0
             THEN [p |-> [p EXCEPT !.ipc_socket_ = fd],
                   log |-> log1, ret |-> FALSE]
             ELSE IF ~connect_ok
             THEN [p |-> [p EXCEPT !.ipc_socket_ = -1],
                   log |-> Append(log2, SockCall("close", fd, <<>>, 0, 0)),
                   ret |-> FALSE]
             ELSE [p |-> [p EXCEPT !.ipc_socket_ = fd, !.connected_ = TRUE],
                   log |-> log2, ret |-> TRUE]
    ELSE [p |-> [p EXCEPT !.connected_ = TRUE], log |-> log, ret |-> TRUE]

\* EtaHENPlugin::ConnectToEtaHEN.  fd is what socket() returns and
\* connect_ok whether connect() succeeds.  (status_callback_ is not
\* modelled.)
ConnectToEtaHEN(p, log, fd, connect_ok) ==
    IF PS5_BUILD
    THEN LET log1 == Append(log, SockCall("socket", fd, <<>>, 0, fd))
             log2 == Append(log1, SockCall("connect", fd, <<>>, 0,
                                           IF connect_ok THEN 0 ELSE -1))
         IN  IF fd < 0
             THEN [p |-> [p EXCEPT !.ipc_socket_ = fd],
                   log |-> log1, ret |-> FALSE]
             ELSE IF ~connect_ok
             THEN [p |-> [p EXCEPT !.ipc_socket_ = -1],
                   log |-> Append(log2, SockCall("close", fd, <<>>, 0, 0)),
                   ret |-> FALSE]
             ELSE [p |-> [p EXCEPT !.ipc_socket_ = fd, !.connected_ = TRUE],
                   log |-> log2, ret |-> TRUE]
    ELSE [p |-> [p EXCEPT !.connected_ = FALSE], log |-> log, ret |-> FALSE]

\* EtaHENPlugin::DisconnectFromEtaHEN
DisconnectFromEtaHEN(p, log) ==
    IF ~p.connected_ THEN [p |-> p, log |-> log]
    ELSE [p |-> [p EXCEPT !.ipc_socket_ = -1, !.connected_ = FALSE],
          log |-> IF p.ipc_socket_ # -1
                  THEN Append(log, SockCall("close", p.ipc_socket_,
                                            <<>>, 0, 0))
                  ELSE log]

\* EtaHENPlugin::ShutdownIPC
ShutdownIPC(p, log) ==
    IF p.ipc_socket_ # -1
    THEN [p |-> [p EXCEPT !.ipc_socket_ = -1],
          log |-> Append(log, SockCall("close", p.ipc_socket_, <<>>, 0, 0))]
    ELSE [p |-> p, log |-> log]

\* EtaHENPlugin::RegisterWithEtaHEN
RegisterWithEtaHEN(p, log, plugin_name, version, x) ==
    IF ~p.connected_ THEN [p |-> p, log |-> log, ret |-> FALSE]
    ELSE LET p1 == [p EXCEPT !.plugin_name_ = plugin_name,
                             !.plugin_version_ = version]
             command == REGISTER_PLUGIN \o plugin_name \o Bytes(<<":">>)
                            \o version
             r == SendIPCCommand(p1, log, command, x)
         IN  [p |-> IF r.ret THEN [p1 EXCEPT !.registered_ = TRUE] ELSE p1,
              log |-> r.log, ret |-> r.ret]

\* EtaHENPlugin::UnregisterFromEtaHEN
UnregisterFromEtaHEN(p, log, x) ==
    IF ~p.registered_ \/ ~p.connected_ THEN [p |-> p, log |-> log]
    ELSE LET command == UNREGISTER_PLUGIN \o p.plugin_name_
             r == SendIPCCommand(p, log, command, x)
         IN  [p |-> [p EXCEPT !.registered_ = FALSE], log |-> r.log]

\* EtaHENPlugin::RequestJailbreak.  own_pid is what getpid() returns.
RequestJailbreak(p, log, pid, own_pid, x) ==
    IF ~p.connected_ THEN [p |-> p, log |-> log, ret |-> FALSE]
    ELSE LET target == IF pid = -1 THEN own_pid ELSE pid
             command == JAILBREAK \o to_string(target)
             r == SendIPCCommand(p, log, command, x)
         IN  [p |-> p, log |-> r.log, ret |-> r.ret]

\* EtaHENPlugin::IsProcessJailbroken
IsProcessJailbroken(p) == p.connected_

\* EtaHENPlugin::EnableDataAccess
EnableDataAccess(p, log, x) ==
    IF ~p.connected_ THEN [p |-> p, log |-> log, ret |-> FALSE]
    ELSE LET r == SendIPCCommand(p, log, ENABLE_DATA_ACCESS, x)
         IN  [p |-> p, log |-> r.log, ret |-> r.ret]

\* EtaHENPlugin::StartFTPServer
StartFTPServer(p, log, port, x) ==
    IF p.ftp_server_running_ THEN [p |-> p, log |-> log, ret |-> TRUE]
    ELSE IF ~p.connected_ THEN [p |-> p, log |-> log, ret |-> FALSE]
    ELSE LET command == START_FTP \o to_string(port)
             r == SendIPCCommand(p, log, command, x)
         IN  [p |-> IF r.ret THEN [p EXCEPT !.ftp_server_running_ = TRUE]
                    ELSE p,
              log |-> r.log, ret |-> r.ret]

\* EtaHENPlugin::StopFTPServer
StopFTPServer(p, log, x) ==
    IF ~p.ftp_server_running_ \/ ~p.connected_ THEN [p |-> p, log |-> log]
    ELSE LET r == SendIPCCommand(p, log, STOP_FTP, x)
         IN  [p |-> [p EXCEPT !.ftp_server_running_ = FALSE], log |-> r.log]

\* EtaHENPlugin::LoadELF
LoadELF(p, log, elf_path, x) ==
    IF ~p.connected_ THEN [p |-> p, log |-> log, ret |-> FALSE]
    ELSE LET r == SendIPCCommand(p, log, LOAD_ELF \o elf_path, x)
         IN  [p |-> p, log |-> r.log, ret |-> r.ret]

\* EtaHENPlugin::GetEtaHENVersion
GetEtaHENVersion(p, log, x) ==
    IF ~p.connected_ THEN [p |-> p, log |-> log, text |-> NotConnected]
    ELSE LET r == SendIPCCommand(p, log, GET_VERSION, x)
         IN  [p |-> p, log |-> r.log,
              text |-> IF r.ret THEN r.response ELSE Unknown]

\* EtaHENPlugin::Initialize
PluginInitialize(p, log, fd, connect_ok, x) ==
    IF p.initialized_ THEN [p |-> p, log |-> log, ret |-> TRUE]
    ELSE IF ~InitializeIPC THEN [p |-> p, log |-> log, ret |-> FALSE]
    ELSE LET c  == ConnectToEtaHEN(p, log, fd, connect_ok)
             p1 == [c.p EXCEPT !.etahen_available_ = c.ret]
             r  == IF c.ret
                   THEN RegisterWithEtaHEN(p1, c.log, p1.plugin_name_,
                                           p1.plugin_version_, x)
                   ELSE [p |-> p1, log |-> c.log, ret |-> FALSE]
         IN  [p |-> [r.p EXCEPT !.initialized_ = TRUE],
              log |-> r.log, ret |-> TRUE]

\* EtaHENPlugin::Shutdown.  StopKlogServer and DisablePS5Debug, which it
\* calls after StopFTPServer, are declared but defined nowhere in the
\* sources, and nothing sets the flags they would clear.
PluginShutdown(p, log, x1, x2) ==
    IF ~p.initialized_ THEN [p |-> p, log |-> log]
    ELSE LET f == StopFTPServer(p, log, x1)
             u == IF f.p.registered_
                  THEN UnregisterFromEtaHEN(f.p, f.log, x2) ELSE f
             d == IF u.p.connected_
                  THEN DisconnectFromEtaHEN(u.p, u.log) ELSE u
             i == ShutdownIPC(d.p, d.log)
         IN  [p |-> [i.p EXCEPT !.initialized_ = FALSE], log |-> i.log]

----------------------------------------------------------------------------
(* EtaHENPlugin: its public operations, called one after the other *)

\* The arguments the operations are called with.
PluginNames == {DefaultPluginName, Bytes(<<"x">>)}
Pids == {-1, 7}
OwnPids == {100}
Ports == {1337, 21}
ElfPaths == {<<>>, Bytes(<<"/", "a", ".", "e", "l", "f">>)}

NoCall == [op |-> "none", ret |-> FALSE, text |-> <<>>]

\* A call of `op` that left the plugin as r.p and the socket history as
\* r.log and returned ret (a bool) or text (a string).
PluginCalled(op, r, ret, text) ==
    /\ plugin' = r.p
    /\ sock_log' = r.log
    /\ plugin_last' = [op |-> op, ret |-> ret, text |-> text]
    /\ UNCHANGED <<PS5_BUILD, frameVars, gpuVars, lifeVars, signalled,
                   appVars, inputVars>>

CallPluginInitialize(fd, connect_ok, x) ==
    /\ Len(sock_log) < MaxSock
    /\ LET r == PluginInitialize(plugin, sock_log, fd, connect_ok, x)
       IN  PluginCalled("Initialize", r, r.ret, <<>>)
    /\ UNCHANGED mainVars

CallPluginShutdown(x1, x2) ==
    /\ Len(sock_log) < MaxSock
    /\ LET r == PluginShutdown(plugin, sock_log, x1, x2)
       IN  PluginCalled("Shutdown", r, FALSE, <<>>)
    /\ UNCHANGED mainVars

CallConnectToEtaHEN(fd, connect_ok) ==
    /\ Len(sock_log) < MaxSock
    /\ LET r == ConnectToEtaHEN(plugin, sock_log, fd, connect_ok)
       IN  PluginCalled("ConnectToEtaHEN", r, r.ret, <<>>)
    /\ UNCHANGED mainVars

CallDisconnectFromEtaHEN ==
    /\ Len(sock_log) < MaxSock
    /\ LET r == DisconnectFromEtaHEN(plugin, sock_log)
       IN  PluginCalled("DisconnectFromEtaHEN", r, FALSE, <<>>)
    /\ UNCHANGED mainVars

CallRegisterWithEtaHEN(plugin_name, version, x) ==
    /\ Len(sock_log) < MaxSock
    /\ LET r == RegisterWithEtaHEN(plugin, sock_log, plugin_name, version, x)
       IN  PluginCalled("RegisterWithEtaHEN", r, r.ret, <<>>)
    /\ UNCHANGED mainVars

CallUnregisterFromEtaHEN(x) ==
    /\ Len(sock_log) < MaxSock
    /\ LET r == UnregisterFromEtaHEN(plugin, sock_log, x)
       IN  PluginCalled("UnregisterFromEtaHEN", r, FALSE, <<>>)
    /\ UNCHANGED mainVars

CallRequestJailbreak(pid, own_pid, x) ==
    /\ Len(sock_log) < MaxSock
    /\ LET r == RequestJailbreak(plugin, sock_log, pid, own_pid, x)
       IN  PluginCalled("RequestJailbreak", r, r.ret, <<>>)
    /\ UNCHANGED mainVars

CallEnableDataAccess(x) ==
    /\ Len(sock_log) < MaxSock
    /\ LET r == EnableDataAccess(plugin, sock_log, x)
       IN  PluginCalled("EnableDataAccess", r, r.ret, <<>>)
    /\ UNCHANGED mainVars

CallStartFTPServer(port, x) ==
    /\ Len(sock_log) < MaxSock
    /\ LET r == StartFTPServer(plugin, sock_log, port, x)
       IN  PluginCalled("StartFTPServer", r, r.ret, <<>>)
    /\ UNCHANGED mainVars

CallStopFTPServer(x) ==
    /\ Len(sock_log) < MaxSock
    /\ LET r == StopFTPServer(plugin, sock_log, x)
       IN  PluginCalled("StopFTPServer", r, FALSE, <<>>)
    /\ UNCHANGED mainVars

CallLoadELF(elf_path, x) ==
    /\ Len(sock_log) < MaxSock
    /\ LET r == LoadELF(plugin, sock_log, elf_path, x)
       IN  PluginCalled("LoadELF", r, r.ret, <<>>)
    /\ UNCHANGED mainVars

CallGetEtaHENVersion(x) ==
    /\ Len(sock_log) < MaxSock
    /\ LET r == GetEtaHENVersion(plugin, sock_log, x)
       IN  PluginCalled("GetEtaHENVersion", r, FALSE, r.text)
    /\ UNCHANGED mainVars

----------------------------------------------------------------------------
(* PS5InputManager: the button mapping *)

InputEventTypes ==
    {"ButtonPress", "ButtonRelease", "AxisMove", "TouchpadTouch",
     "TouchpadRelease", "MotionUpdate"}

SwitchButtonMapping(ps5_button, switch_button) ==
    [ps5_button |-> ps5_button, switch_button |-> switch_button]

\* The mapping Initialize installs, in the order of the initializer list
\* (0x0001, 0x0002, 0x0004, ... 0x2000 on both sides).
DefaultMapping ==
    << SwitchButtonMapping(1, 1),        \* Cross -> A
       SwitchButtonMapping(2, 2),        \* Circle -> B
       SwitchButtonMapping(4, 4),        \* Square -> Y
       SwitchButtonMapping(8, 8),        \* Triangle -> X
       SwitchButtonMapping(16, 16),      \* L1 -> L
       SwitchButtonMapping(32, 32),      \* R1 -> R
       SwitchButtonMapping(64, 64),      \* L2 -> ZL
       SwitchButtonMapping(128, 128),    \* R2 -> ZR
       SwitchButtonMapping(256, 256),    \* Share -> Minus
       SwitchButtonMapping(512, 512),    \* Options -> Plus
       SwitchButtonMapping(1024, 1024),  \* L3 -> Left Stick
       SwitchButtonMapping(2048, 2048),  \* R3 -> Right Stick
       SwitchButtonMapping(4096, 4096),  \* PS Button -> Home
       SwitchButtonMapping(8192, 8192) >> \* Touchpad -> Capture

\* Both branches of InitializePS5InputSystem return true.
InitializePS5InputSystem == TRUE

\* Mutant of MapButtonFrom: the loop has no break, so a later entry for
\* the same button overrides an earlier one.
RECURSIVE MapButtonFromWithoutBreak(_, _, _, _)
MapButtonFromWithoutBreak(mapping, i, ps5, switch) ==
    IF i > Len(mapping) THEN switch
    ELSE IF mapping[i].ps5_button = ps5.button_id
    THEN MapButtonFromWithoutBreak(mapping, i + 1, ps5,
             [switch EXCEPT !.button_id = mapping[i].switch_button])
    ELSE MapButtonFromWithoutBreak(mapping, i + 1, ps5, switch)

\* for (const auto& mapping : button_mapping_): the iterations from entry
\* i on; an entry that matches sets button_id and breaks.
RECURSIVE MapButtonFrom(_, _, _, _)
MapButtonFrom(mapping, i, ps5, switch) ==
    IF i > Len(mapping) THEN switch
    ELSE IF mapping[i].ps5_button = ps5.button_id
    THEN [switch EXCEPT !.button_id = mapping[i].switch_button]
    ELSE MapButtonFrom(mapping, i + 1, ps5, switch)

\* PS5InputManager::MapPS5ToSwitchInput: the value left in switch_event.
MapPS5ToSwitchInput(mapping, ps5) ==
    IF ps5.type = "ButtonPress" \/ ps5.type = "ButtonRelease"
    THEN MapButtonFrom(mapping, 1, ps5, ps5)
    ELSE ps5

\* The mappings SetSwitchButtonMapping is called with: none, one with two
\* entries for the same button, one that swaps two buttons and has a later
\* entry for the first, and the default one.
Mappings ==
    { <<>>,
      << SwitchButtonMapping(1, 2), SwitchButtonMapping(1, 4) >>,
      << SwitchButtonMapping(2, 1), SwitchButtonMapping(1, 2),
         SwitchButtonMapping(2, 8) >>,
      DefaultMapping }

\* The events MapPS5ToSwitchInput is called with.
ButtonIds == {0, 3, 16384} \cup {2^k : k \in 0..13}

InputEvents ==
    [type : InputEventTypes, controller_id : {3}, button_id : ButtonIds,
     value : {0, 1}, x : {5}, y : {7}, timestamp : {1000}]

NoEvent ==
    [type : {"MotionUpdate"}, controller_id : {0}, button_id : {0},
     value : {0}, x : {0}, y : {0}, timestamp : {0}]

\* PS5InputManager::Initialize
InputInitialize ==
    /\ IF input_initialized_ THEN UNCHANGED <<input_initialized_, button_mapping_>>
       ELSE IF ~InitializePS5InputSystem
       THEN UNCHANGED <<input_initialized_, button_mapping_>>
       ELSE /\ button_mapping_' = DefaultMapping
            /\ input_initialized_' = TRUE
    /\ UNCHANGED <<ps5_event, switch_event>>
    /\ UNCHANGED <<frameVars, gpuVars, lifeVars, signalled,
                   appVars, pluginVars, mainVars>>

\* PS5InputManager::Shutdown: the mapping stays.
InputShutdown ==
    /\ input_initialized_' = FALSE
    /\ UNCHANGED <<button_mapping_, ps5_event, switch_event>>
    /\ UNCHANGED <<frameVars, gpuVars, lifeVars, signalled,
                   appVars, pluginVars, mainVars>>

\* PS5InputManager::SetSwitchButtonMapping
SetSwitchButtonMapping(mapping) ==
    /\ button_mapping_' = mapping
    /\ UNCHANGED <<input_initialized_, ps5_event, switch_event>>
    /\ UNCHANGED <<frameVars, gpuVars, lifeVars, signalled,
                   appVars, pluginVars, mainVars>>

\* A call MapPS5ToSwitchInput(event, switch_event).
CallMapPS5ToSwitchInput(event) ==
    /\ ps5_event' = event
    /\ switch_event' = MapPS5ToSwitchInput(button_mapping_, event)
    /\ UNCHANGED <<input_initialized_, button_mapping_>>
    /\ UNCHANGED <<frameVars, gpuVars, lifeVars, signalled,
                   appVars, pluginVars, mainVars>>

----------------------------------------------------------------------------
(* PS5AudioManager: devices and streams are counted *)

\* PS5AudioManager::PS5AudioManager
AudioConstructed ==
    [initialized_ |-> FALSE, is_3d_audio_available_ |-> FALSE,
     output_devices_ |-> 0, input_devices_ |-> 0,
     default_output_device_ |-> "null", default_input_device_ |-> "null",
     streams_ |-> 0]

\* Mutant of AudioInitialize: the devices are enumerated again on an audio
\* manager that is initialized.
AudioInitializeAgain(a, build) ==
    [a |-> [a EXCEPT !.output_devices_ = IF build THEN 2 ELSE 1,
                     !.input_devices_ = 1,
                     !.default_output_device_ = "output 0",
                     !.default_input_device_ = "input 0",
                     !.is_3d_audio_available_ = build,
                     !.initialized_ = TRUE],
     ret |-> TRUE,
     steps |-> <<"InitializePS5AudioSystem", "EnumerateAudioDevices">>]

\* PS5AudioManager::Initialize with InitializePS5AudioSystem (true in either
\* build) and EnumerateAudioDevices (two outputs on a PS5, one otherwise).
AudioInitialize(a, build) ==
    IF a.initialized_ THEN [a |-> a, ret |-> TRUE, steps |-> <<>>]
    ELSE [a |-> [a EXCEPT !.output_devices_ = IF build THEN 2 ELSE 1,
                          !.input_devices_ = 1,
                          !.default_output_device_ = "output 0",
                          !.default_input_device_ = "input 0",
                          !.is_3d_audio_available_ = build,
                          !.initialized_ = TRUE],
          ret |-> TRUE,
          steps |-> <<"InitializePS5AudioSystem", "EnumerateAudioDevices">>]

\* PS5AudioManager::Shutdown with CleanupAudioDevices.
AudioShutdown(a) ==
    IF ~a.initialized_ THEN [a |-> a, steps |-> <<>>]
    ELSE [a |-> [a EXCEPT !.streams_ = 0,
                          !.default_output_device_ = "null",
                          !.default_input_device_ = "null",
                          !.output_devices_ = 0,
                          !.input_devices_ = 0,
                          !.initialized_ = FALSE],
          steps |-> <<"streams_.clear", "CleanupAudioDevices",
                      "ShutdownPS5AudioSystem">>]

\* PS5AudioManager::CreateOutputStream; stream_ok is what the new stream's
\* Initialize returns.
CreateOutputStream(a, stream_ok) ==
    IF ~a.initialized_ \/ a.default_output_device_ = "null" \/ ~stream_ok
    THEN a
    ELSE [a EXCEPT !.streams_ = @ + 1]

\* Bound: the number of streams an audio manager holds.
MaxStreams == 2

\* A call of Initialize or Shutdown that left the audio manager as r.a.
AudioCalled(r) ==
    /\ audio_manager' = r.a
    /\ last_steps' = r.steps
    /\ UNCHANGED <<frameVars, gpuVars, appVars, pluginVars, inputVars, mainVars>>
    /\ UNCHANGED signalled

CallAudioInitialize ==
    LET r == AudioInitialize(audio_manager, PS5_BUILD) IN AudioCalled(r)

CallAudioShutdown == LET r == AudioShutdown(audio_manager) IN AudioCalled(r)

CallCreateOutputStream(stream_ok) ==
    /\ audio_manager.streams_ < MaxStreams
    /\ audio_manager' = CreateOutputStream(audio_manager, stream_ok)
    /\ UNCHANGED <<last_steps, signalled, frameVars, gpuVars>>
    /\ UNCHANGED <<appVars, pluginVars, inputVars, mainVars>>

----------------------------------------------------------------------------
(* PS5System and main *)

PS5SystemStatics ==
    [initialized_ |-> FALSE, etahen_available_ |-> FALSE,
     high_performance_mode_ |-> FALSE]

\* Both branches of PS5System::InitializeEtaHEN return false.
InitializeEtaHEN == FALSE

\* PS5System::Initialize
PS5SystemInitialize(s) ==
    IF s.initialized_ THEN [s |-> s, ret |-> TRUE]
    ELSE [s |-> [s EXCEPT !.etahen_available_ =
                              IF PS5_BUILD THEN InitializeEtaHEN ELSE FALSE,
                          !.initialized_ = TRUE],
          ret |-> TRUE]

\* PS5System::Shutdown, with ReleaseHighPerformanceMode.
PS5SystemShutdown(s) ==
    IF ~s.initialized_ THEN s
    ELSE [s EXCEPT !.high_performance_mode_ = FALSE, !.initialized_ = FALSE]

\* A call of PS5System::Initialize or Shutdown from outside main.
PS5SystemCalled(s) ==
    /\ main_pc = "none"
    /\ platform' = s
    /\ UNCHANGED <<main_pc, main_result, g_ps5_app, main_trace>>
    /\ UNCHANGED <<frameVars, gpuVars, lifeVars, signalled,
                   appVars, pluginVars, inputVars>>

CallPS5SystemInitialize == PS5SystemCalled(PS5SystemInitialize(platform).s)

CallPS5SystemShutdown == PS5SystemCalled(PS5SystemShutdown(platform))

MainNotReturned == [state |-> "none", value |-> 0]

\* main goes on to `next` having made `call`.
MainGoes(next, call) ==
    /\ main_pc' = next
    /\ main_trace' = Append(main_trace, call)

\* What the daemon does to a command main's calls send: it answers, the
\* send fails, or the answer does not arrive.
MainExchanges ==
    { [send |-> "full", recv |-> [ret |-> 2, data |-> Bytes(<<"O", "K">>)]],
      [send |-> "fail", recv |-> [ret |-> -1, data |-> <<>>]],
      [send |-> "full", recv |-> [ret |-> -1, data |-> <<>>]] }

\* if (!PS5Platform::PS5System::Initialize()) return -1;
MainPlatformInitialize ==
    /\ main_pc = "platform_init"
    /\ LET r == PS5SystemInitialize(platform)
       IN  /\ platform' = r.s
           /\ IF r.ret
              THEN /\ MainGoes("etahen_init", "PS5System::Initialize")
                   /\ UNCHANGED main_result
              ELSE /\ MainGoes("done", "PS5System::Initialize")
                   /\ main_result' = [state |-> "returned", value |-> -1]
    /\ UNCHANGED <<g_ps5_app, frameVars, gpuVars, lifeVars, signalled,
                   appVars, pluginVars,
                   inputVars>>

\* if (!etahen.Initialize()) { warning }: main goes on either way.
MainEtaHENInitialize(fd, connect_ok, x) ==
    /\ main_pc = "etahen_init"
    /\ LET r == PluginInitialize(plugin, sock_log, fd, connect_ok, x)
       IN  PluginCalled("Initialize", r, r.ret, <<>>)
    /\ MainGoes("check_available", "etahen.Initialize")
    /\ UNCHANGED <<main_result, g_ps5_app, platform>>

\* Mutant of MainRequestJailbreak: a failed jailbreak request ends main.
MainRequestJailbreakOrExit(own_pid, x) ==
    /\ main_pc = "request_jailbreak"
    /\ LET r == RequestJailbreak(plugin, sock_log, -1, own_pid, x)
       IN  /\ PluginCalled("RequestJailbreak", r, r.ret, <<>>)
           /\ IF r.ret
              THEN /\ MainGoes("enable_data_access", "etahen.RequestJailbreak")
                   /\ UNCHANGED main_result
              ELSE /\ MainGoes("done", "etahen.RequestJailbreak")
                   /\ main_result' = [state |-> "returned", value |-> -1]
    /\ UNCHANGED <<g_ps5_app, platform>>

\* Mutant of MainCheckAvailable: the jailbreak is requested whether or not
\* etaHEN was detected.
MainCheckAvailableAlwaysRequests ==
    /\ main_pc = "check_available"
    /\ MainGoes("request_jailbreak", "etahen.IsEtaHENAvailable")
    /\ UNCHANGED <<main_result, g_ps5_app, platform, frameVars, gpuVars,
                   lifeVars, signalled,
                   appVars, pluginVars, inputVars>>

\* if (etahen.IsEtaHENAvailable()) { ... } else { warning }
MainCheckAvailable ==
    /\ main_pc = "check_available"
    /\ IF plugin.etahen_available_
       THEN MainGoes("request_jailbreak", "etahen.IsEtaHENAvailable")
       ELSE MainGoes("create_app", "etahen.IsEtaHENAvailable")
    /\ UNCHANGED <<main_result, g_ps5_app, platform, frameVars, gpuVars,
                   lifeVars, signalled,
                   appVars, pluginVars, inputVars>>

\* if (etahen.RequestJailbreak()) { ... } else { warning }
MainRequestJailbreak(own_pid, x) ==
    /\ main_pc = "request_jailbreak"
    /\ LET r == RequestJailbreak(plugin, sock_log, -1, own_pid, x)
       IN  /\ PluginCalled("RequestJailbreak", r, r.ret, <<>>)
           /\ IF r.ret
              THEN MainGoes("enable_data_access", "etahen.RequestJailbreak")
              ELSE MainGoes("create_app", "etahen.RequestJailbreak")
    /\ UNCHANGED <<main_result, g_ps5_app, platform>>

\* etahen.EnableDataAccess(): the result is not looked at.
MainEnableDataAccess(x) ==
    /\ main_pc = "enable_data_access"
    /\ LET r == EnableDataAccess(plugin, sock_log, x)
       IN  PluginCalled("EnableDataAccess", r, r.ret, <<>>)
    /\ MainGoes("create_app", "etahen.EnableDataAccess")
    /\ UNCHANGED <<main_result, g_ps5_app, platform>>

\* g_ps5_app = std::make_unique<PS5Application>();
MainCreateApp ==
    /\ main_pc = "create_app"
    /\ g_ps5_app' = TRUE
    /\ app' = AppConstructed
    /\ MainGoes("app_init", "make_unique<PS5Application>")
    /\ UNCHANGED <<main_result, platform, pc, loop, trace, run_result,
                   frameVars, gpuVars, lifeVars, signalled,
                   pluginVars, inputVars>>

\* if (!g_ps5_app->Initialize(argc, argv)) return -1;
MainAppInitialize(argv, fail_at) ==
    /\ main_pc = "app_init"
    /\ CallInitialize(argv, fail_at)
    /\ IF AppInitialize(app, argv, fail_at).ret
       THEN /\ MainGoes("run", "g_ps5_app->Initialize")
            /\ UNCHANGED main_result
       ELSE /\ MainGoes("done", "g_ps5_app->Initialize")
            /\ main_result' = [state |-> "returned", value |-> -1]
    /\ UNCHANGED <<g_ps5_app, platform>>

\* int result = g_ps5_app->Run(): the call.
MainRun(load_ok, start_ok) ==
    /\ main_pc = "run"
    /\ Run(load_ok, start_ok)
    /\ MainGoes("in_run", "g_ps5_app->Run")
    /\ UNCHANGED <<main_result, g_ps5_app, platform>>

\* int result = g_ps5_app->Run(): Run has returned.
MainRunReturned ==
    /\ main_pc = "in_run"
    /\ pc = "idle"
    /\ run_result.state = "returned"
    /\ main_result' = [state |-> "none", value |-> run_result.value]
    /\ main_pc' = "app_shutdown"
    /\ UNCHANGED <<main_trace, g_ps5_app, platform, frameVars, gpuVars,
                   lifeVars, signalled,
                   appVars, pluginVars, inputVars>>

\* if (g_ps5_app) { g_ps5_app->Shutdown(); g_ps5_app.reset(); }
MainAppShutdown ==
    /\ main_pc = "app_shutdown"
    /\ IF g_ps5_app
       THEN /\ CallShutdown
            /\ g_ps5_app' = FALSE
            /\ MainGoes("etahen_shutdown", "g_ps5_app->Shutdown")
       ELSE /\ main_pc' = "etahen_shutdown"
            /\ UNCHANGED <<main_trace, g_ps5_app, frameVars, gpuVars,
                           lifeVars, signalled,
                           appVars, pluginVars, inputVars>>
    /\ UNCHANGED <<main_result, platform>>

\* etahen.Shutdown();
MainEtaHENShutdown(x1, x2) ==
    /\ main_pc = "etahen_shutdown"
    /\ LET r == PluginShutdown(plugin, sock_log, x1, x2)
       IN  PluginCalled("Shutdown", r, FALSE, <<>>)
    /\ MainGoes("platform_shutdown", "etahen.Shutdown")
    /\ UNCHANGED <<main_result, g_ps5_app, platform>>

\* PS5Platform::PS5System::Shutdown(); return result;
MainPlatformShutdown ==
    /\ main_pc = "platform_shutdown"
    /\ platform' = PS5SystemShutdown(platform)
    /\ MainGoes("done", "PS5System::Shutdown")
    /\ main_result' = [state |-> "returned", value |-> main_result.value]
    /\ UNCHANGED <<g_ps5_app, frameVars, gpuVars, lifeVars, signalled,
                   appVars, pluginVars,
                   inputVars>>

\* SignalHandler, run on SIGINT or SIGTERM at any point of main.
SignalHandler ==
    /\ main_pc \notin {"none", "done"}
    /\ signalled' = TRUE
    /\ app' = IF g_ps5_app THEN [app EXCEPT !.shutdown_requested_ = TRUE]
              ELSE app
    /\ UNCHANGED <<pc, loop, trace, run_result, frameVars, gpuVars, lifeVars>>
    /\ UNCHANGED <<pluginVars, inputVars, mainVars>>

----------------------------------------------------------------------------
(* Specifications *)

AppIdle ==
    /\ app = AppConstructed
    /\ pc = "idle"
    /\ loop = LoopEntered
    /\ trace = <<>>
    /\ run_result = NotRun

PluginIdle ==
    /\ plugin = PluginConstructed
    /\ sock_log = <<>>
    /\ plugin_last = NoCall

InputIdle ==
    /\ input_initialized_ = FALSE
    /\ button_mapping_ = <<>>
    /\ ps5_event \in NoEvent
    /\ switch_event = ps5_event

AudioIdle ==
    /\ audio_manager = AudioConstructed
    /\ last_steps = <<>>

MainIdle ==
    /\ main_pc = "none"
    /\ main_result = MainNotReturned
    /\ g_ps5_app = FALSE
    /\ platform = PS5SystemStatics
    /\ main_trace = <<>>
    /\ signalled = FALSE

\* The parts of the program a specification does not use: a development
\* build, nothing called yet.
OthersIdle ==
    PS5_BUILD = FALSE /\ PluginIdle /\ InputIdle /\ MainIdle /\ AudioIdle

\* An initialized renderer used on its own.
InitFrame ==
    /\ \E f \in StartFrames : RendererIs(RendererReady(f))
    /\ AppIdle
    /\ OthersIdle

NextFrameSpec == BeginFrame \/ EndFrame \/ Present

SpecFrame == InitFrame /\ [][NextFrameSpec]_vars

\* A GNM wrapper used on its own.
InitGpu == RendererIs(RendererConstructed) /\ AppIdle /\ OthersIdle

NextGpu ==
    \E size \in Sizes, alignment \in Alignments :
        AllocateGPUMemory(size, alignment)

SpecGpu == InitGpu /\ [][NextGpu]_vars

\* A PS5Application and whoever calls it; RequestShutdown at any time.
InitApp == RendererIs(RendererConstructed) /\ AppIdle /\ OthersIdle

MainLoopStep ==
    \/ LoopExit
    \/ LoopEnter
    \/ InputUpdate
    \/ FrontendUpdate
    \/ CoreUpdate
    \/ LoopBeginFrame
    \/ CoreRender
    \/ FrontendRender
    \/ LoopEndFrame
    \/ LoopPresent
    \/ \E work_ns \in WorkDurations, over_ns \in Oversleep :
           FrameLimit(work_ns, over_ns)

NextApp ==
    \/ \E argv \in Argvs, fail_at \in 0..Len(Subsystems) :
           CallInitialize(argv, fail_at) /\ UNCHANGED mainVars
    \/ CallShutdown /\ UNCHANGED mainVars
    \/ \E game_path \in GamePaths, core_ok \in BOOLEAN :
           CallLoadGame(game_path, core_ok)
    \/ CallUnloadGame
    \/ \E core_ok \in BOOLEAN : CallStartEmulation(core_ok)
    \/ CallPauseEmulation
    \/ CallResumeEmulation
    \/ CallStopEmulation
    \/ \E load_ok \in BOOLEAN, start_ok \in BOOLEAN :
           Run(load_ok, start_ok) /\ UNCHANGED mainVars
    \/ MainLoopStep
    \/ RequestShutdown

SpecApp == InitApp /\ [][NextApp]_vars

\* The main thread keeps running: a step of Run's loop that can be taken is
\* taken eventually.
FairSpecApp == SpecApp /\ WF_vars(MainLoopStep)

\* The start of a PS5Application: Initialize with the command line on the
\* newly constructed object, then Run; RequestShutdown at any time.
StartInitialize(argv, fail_at) ==
    /\ app = AppConstructed
    /\ CallInitialize(argv, fail_at)
    /\ UNCHANGED mainVars

NextStart ==
    \/ \E argv \in CmdLines, fail_at \in 0..Len(Subsystems) :
           StartInitialize(argv, fail_at)
    \/ \E load_ok \in BOOLEAN, start_ok \in BOOLEAN :
           Run(load_ok, start_ok) /\ UNCHANGED mainVars
    \/ MainLoopStep
    \/ RequestShutdown

SpecStart == InitApp /\ [][NextStart]_vars

\* A PS5Application whose Initialize, when it gets as far as the subsystems,
\* succeeds, and the game and emulation operations called on it in any
\* order between the runs of its main loop.
NextGame ==
    \/ \E argv \in Argvs : CallInitialize(argv, 0) /\ UNCHANGED mainVars
    \/ CallShutdown /\ UNCHANGED mainVars
    \/ \E game_path \in GamePaths, core_ok \in BOOLEAN :
           CallLoadGame(game_path, core_ok)
    \/ CallUnloadGame
    \/ \E core_ok \in BOOLEAN : CallStartEmulation(core_ok)
    \/ CallPauseEmulation
    \/ CallResumeEmulation
    \/ CallStopEmulation
    \/ \E load_ok \in BOOLEAN, start_ok \in BOOLEAN :
           Run(load_ok, start_ok) /\ UNCHANGED mainVars
    \/ MainLoopStep
    \/ RequestShutdown

SpecGame == InitApp /\ [][NextGame]_vars

\* Every component of either build, used through its Initialize and
\* Shutdown and some of the operations that change what these would
\* reset.  The components share no state (but an application makes its own
\* renderer), so one is used while the others are as constructed.
InitLifecycle ==
    /\ RendererIs(RendererConstructed)
    /\ AppIdle
    /\ InputIdle
    /\ MainIdle
    /\ PS5_BUILD \in BOOLEAN
    /\ PluginIdle
    /\ AudioIdle

Components ==
    {"PS5Application", "PS5Renderer", "PS5AudioManager", "PS5InputManager",
     "EtaHENPlugin", "PS5System"}

AsConstructed(c) ==
    CASE c = "PS5Application"  -> AppIdle
      [] c = "PS5Renderer"     -> /\ renderer = RendererMembers
                                  /\ gnm = GNMWrapperConstructed
                                  /\ current_frame_ = Zero(U32Limbs)
      [] c = "PS5AudioManager" -> audio_manager = AudioConstructed
      [] c = "PS5InputManager" -> ~input_initialized_ /\ button_mapping_ = <<>>
      [] c = "EtaHENPlugin"    -> PluginIdle
      [] c = "PS5System"       -> platform = PS5SystemStatics

\* Only the components in `used` have been used.
Only(used) ==
    /\ \A c \in Components \ used : AsConstructed(c)
    /\ used \cap {"PS5Renderer", "PS5AudioManager"} = {} => last_steps = <<>>

\* Only an application and the renderer it makes have been used.
OnlyApplication ==
    Only({"PS5Application", "PS5Renderer"}) /\ last_steps = <<>>

NextLifecycle ==
    \/ \E argv \in Argvs, fail_at \in 0..Len(Subsystems) :
           /\ OnlyApplication
           /\ CallInitialize(argv, fail_at)
           /\ UNCHANGED mainVars
    \/ OnlyApplication /\ CallShutdown /\ UNCHANGED mainVars
    \/ \E game_path \in GamePaths, core_ok \in BOOLEAN :
           OnlyApplication /\ CallLoadGame(game_path, core_ok)
    \/ \E core_ok \in BOOLEAN : OnlyApplication /\ CallStartEmulation(core_ok)
    \/ OnlyApplication /\ CallPauseEmulation
    \/ \E fail \in RendererParts \cup {"none"} :
           Only({"PS5Renderer"}) /\ CallRendererInitialize(fail)
    \/ Only({"PS5Renderer"}) /\ CallRendererShutdown
    \/ Only({"PS5Renderer"}) /\ CallGNMWrapperInitialize
    \/ Only({"PS5Renderer"}) /\ CallGNMWrapperShutdown
    \/ Only({"PS5AudioManager"}) /\ CallAudioInitialize
    \/ Only({"PS5AudioManager"}) /\ CallAudioShutdown
    \/ \E stream_ok \in BOOLEAN :
           Only({"PS5AudioManager"}) /\ CallCreateOutputStream(stream_ok)
    \/ Only({"PS5InputManager"}) /\ InputInitialize
    \/ Only({"PS5InputManager"}) /\ InputShutdown
    \/ \E mapping \in Mappings :
           Only({"PS5InputManager"}) /\ SetSwitchButtonMapping(mapping)
    \/ \E fd \in SocketResults, connect_ok \in BOOLEAN, x \in MainExchanges :
           Only({"EtaHENPlugin"}) /\ CallPluginInitialize(fd, connect_ok, x)
    \/ \E x1 \in MainExchanges, x2 \in MainExchanges :
           Only({"EtaHENPlugin"}) /\ CallPluginShutdown(x1, x2)
    \/ \E x \in MainExchanges :
           /\ Only({"EtaHENPlugin"})
           /\ CallRegisterWithEtaHEN(DefaultPluginName, DefaultPluginVersion, x)
    \/ Only({"PS5System"}) /\ CallPS5SystemInitialize
    \/ Only({"PS5System"}) /\ CallPS5SystemShutdown

SpecLifecycle == InitLifecycle /\ [][NextLifecycle]_vars

\* An EtaHENPlugin of either build and whoever calls it.
InitPlugin ==
    /\ RendererIs(RendererConstructed)
    /\ AppIdle
    /\ InputIdle
    /\ MainIdle
    /\ PS5_BUILD \in BOOLEAN
    /\ PluginIdle
    /\ AudioIdle

NextPlugin ==
    \/ \E fd \in SocketResults, connect_ok \in BOOLEAN, x \in Exchanges :
           CallPluginInitialize(fd, connect_ok, x)
    \/ \E x1 \in Exchanges, x2 \in Exchanges : CallPluginShutdown(x1, x2)
    \/ \E fd \in SocketResults, connect_ok \in BOOLEAN :
           CallConnectToEtaHEN(fd, connect_ok)
    \/ CallDisconnectFromEtaHEN
    \/ \E plugin_name \in PluginNames, x \in Exchanges :
           CallRegisterWithEtaHEN(plugin_name, DefaultPluginVersion, x)
    \/ \E x \in Exchanges : CallUnregisterFromEtaHEN(x)
    \/ \E pid \in Pids, own_pid \in OwnPids, x \in Exchanges :
           CallRequestJailbreak(pid, own_pid, x)
    \/ \E x \in Exchanges : CallEnableDataAccess(x)
    \/ \E port \in Ports, x \in Exchanges : CallStartFTPServer(port, x)
    \/ \E x \in Exchanges : CallStopFTPServer(x)
    \/ \E elf_path \in ElfPaths, x \in Exchanges : CallLoadELF(elf_path, x)
    \/ \E x \in Exchanges : CallGetEtaHENVersion(x)

SpecPlugin == InitPlugin /\ [][NextPlugin]_vars

\* The plugin's connection, registration and FTP operations over socket
\* histories long enough for a connection to be made, used and given up.
MaxCalls == 6

\* A call of `op`, as PluginCalled, while the socket history has room.
PluginCalledLater(op, r, ret) ==
    /\ Len(sock_log) < MaxCalls
    /\ PluginCalled(op, r, ret, <<>>)
    /\ UNCHANGED mainVars

NextConnection ==
    \/ \E fd \in SocketResults, connect_ok \in BOOLEAN, x \in MainExchanges :
           LET r == PluginInitialize(plugin, sock_log, fd, connect_ok, x)
           IN  PluginCalledLater("Initialize", r, r.ret)
    \/ \E x1 \in MainExchanges, x2 \in MainExchanges :
           LET r == PluginShutdown(plugin, sock_log, x1, x2)
           IN  PluginCalledLater("Shutdown", r, FALSE)
    \/ \E fd \in SocketResults, connect_ok \in BOOLEAN :
           LET r == ConnectToEtaHEN(plugin, sock_log, fd, connect_ok)
           IN  PluginCalledLater("ConnectToEtaHEN", r, r.ret)
    \/ LET r == DisconnectFromEtaHEN(plugin, sock_log)
       IN  PluginCalledLater("DisconnectFromEtaHEN", r, FALSE)
    \/ \E x \in MainExchanges :
           LET r == RegisterWithEtaHEN(plugin, sock_log, DefaultPluginName,
                                       DefaultPluginVersion, x)
           IN  PluginCalledLater("RegisterWithEtaHEN", r, r.ret)
    \/ \E x \in MainExchanges :
           LET r == UnregisterFromEtaHEN(plugin, sock_log, x)
           IN  PluginCalledLater("UnregisterFromEtaHEN", r, FALSE)
    \/ \E port \in Ports, x \in MainExchanges :
           LET r == StartFTPServer(plugin, sock_log, port, x)
           IN  PluginCalledLater("StartFTPServer", r, r.ret)
    \/ \E x \in MainExchanges :
           LET r == StopFTPServer(plugin, sock_log, x)
           IN  PluginCalledLater("StopFTPServer", r, FALSE)

SpecConnection == InitPlugin /\ [][NextConnection]_vars

\* A PS5InputManager and whoever calls it.
InitInput ==
    /\ RendererIs(RendererConstructed)
    /\ AppIdle
    /\ PS5_BUILD = FALSE
    /\ PluginIdle
    /\ MainIdle
    /\ InputIdle
    /\ AudioIdle

NextInput ==
    \/ InputInitialize
    \/ InputShutdown
    \/ \E mapping \in Mappings : SetSwitchButtonMapping(mapping)
    \/ \E event \in InputEvents : CallMapPS5ToSwitchInput(event)

SpecInput == InitInput /\ [][NextInput]_vars

\* The program of either build, from the first statement of main after the
\* signal handlers are installed.
InitMain ==
    /\ RendererIs(RendererConstructed)
    /\ AppIdle
    /\ InputIdle
    /\ PS5_BUILD \in BOOLEAN
    /\ PluginIdle
    /\ AudioIdle
    /\ main_pc = "platform_init"
    /\ main_result = MainNotReturned
    /\ g_ps5_app = FALSE
    /\ platform = PS5SystemStatics
    /\ main_trace = <<>>
    /\ signalled = FALSE

MainThreadStep ==
    \/ MainPlatformInitialize
    \/ \E fd \in SocketResults, connect_ok \in BOOLEAN, x \in MainExchanges :
           MainEtaHENInitialize(fd, connect_ok, x)
    \/ MainCheckAvailable
    \/ \E own_pid \in OwnPids, x \in MainExchanges :
           MainRequestJailbreak(own_pid, x)
    \/ \E x \in MainExchanges : MainEnableDataAccess(x)
    \/ MainCreateApp
    \/ \E argv \in Argvs, fail_at \in 0..Len(Subsystems) :
           MainAppInitialize(argv, fail_at)
    \/ \E load_ok \in BOOLEAN, start_ok \in BOOLEAN : MainRun(load_ok, start_ok)
    \/ MainLoopStep
    \/ MainRunReturned
    \/ MainAppShutdown
    \/ \E x1 \in MainExchanges, x2 \in MainExchanges :
           MainEtaHENShutdown(x1, x2)
    \/ MainPlatformShutdown

NextMain == MainThreadStep \/ SignalHandler

SpecMain == InitMain /\ [][NextMain]_vars

\* The main thread keeps running: a step of main or of Run's loop that can
\* be taken is taken eventually.  Signals need not arrive.
FairSpecMain == SpecMain /\ WF_vars(MainThreadStep)

----------------------------------------------------------------------------
(* Claims *)

\* C1: frame management is triple-buffered: on every BeginFrame the frame
\* buffer selected is one of 0, 1, 2 and is the one after the previous frame's
\* buffer in round-robin order, so that two consecutive frames never use the
\* same buffer, also when the 32-bit current_frame_ counter wraps around.
C1_RoundRobinAcrossWrap ==
    [][current_frame_' # current_frame_ =>
          /\ current_frame_buffer_' \in 0..(MAX_FRAME_BUFFERS - 1)
          /\ current_frame_buffer_' =
                 (current_frame_buffer_ + 1) % MAX_FRAME_BUFFERS
          /\ current_frame_buffer_' # current_frame_buffer_]_vars

\* x is a multiple of the power of two a (a of uint32_t width).
IsMultipleOf(x, a) ==
    UAnd(x, ZeroExtend(USub(a, FromNat(1, Len(a))), Len(x))) = Zero(Len(x))

\* C2: the allocations returned by AllocateGPUMemory never overlap: the
\* ranges [address, address + size) are pairwise disjoint and the addresses
\* strictly increase, however many bytes have been allocated.
C2_AllocationsDisjoint ==
    \A i, j \in 1..Len(allocs) :
        i < j =>
            /\ ULess(allocs[i].address, allocs[j].address)
            /\ ULeq(UAddWide(allocs[i].address, allocs[i].size),
                    ZeroExtend(allocs[j].address, U64Limbs + 1))

\* C3: AllocateGPUMemory returns gpu_memory_base plus the smallest multiple
\* of alignment that is at least the bump offset before the call, and leaves
\* the bump offset at that aligned offset plus size; the address is a
\* multiple of alignment and is not 0.
C3_AlignedBump ==
    last_alloc.called =>
        LET aligned == USub(last_alloc.address, gpu_memory_base)
            wide    == U64Limbs + 1
        IN  /\ ULeq(gpu_memory_base, last_alloc.address)
            /\ IsMultipleOf(aligned, last_alloc.alignment)
            /\ ULeq(last_alloc.before, aligned)
            /\ ULess(ZeroExtend(aligned, wide),
                     UAddWide(last_alloc.before,
                              ZeroExtend(last_alloc.alignment, U64Limbs)))
            /\ gpu_memory_offset = UAdd(aligned, last_alloc.size)
            /\ IsMultipleOf(last_alloc.address, last_alloc.alignment)
            /\ last_alloc.address # Zero(U64Limbs)

\* The calls of the loop body, without those Run makes before MainLoop.
LoopTrace ==
    SelectSeq(trace, LAMBDA c : c[2] \notin {"LoadGame", "StartEmulation"})

\* The order the claim gives for one iteration of MainLoop.
IterationOrder(running, paused) ==
    Call("input_manager_", "Update") \o Call("frontend_", "Update")
    \o (IF running /\ ~paused THEN Call("eden_core_", "Update") ELSE <<>>)
    \o Call("renderer_", "BeginFrame")
    \o (IF running THEN Call("eden_core_", "Render") ELSE <<>>)
    \o Call("frontend_", "Render")
    \o Call("renderer_", "EndFrame") \o Call("renderer_", "Present")

\* The command-buffer cycle: Begin, End, Submit, Present, and again.
CommandCycle == <<"Begin", "End", "Submit", "Present">>

\* C4: every iteration of MainLoop makes its calls in the order input
\* Update, frontend Update, core Update (only if running and not paused),
\* BeginFrame, core Render (only if running), frontend Render, EndFrame,
\* Present; the command buffer sees Begin, End, Submit, Present in turn, so
\* that a submit and a present follow exactly one Begin and one End and no
\* Begin follows a Begin without a Present in between.
C4_FrameCycleOrder ==
    /\ pc # "idle" =>
          LET order == IterationOrder(app.emulation_running_,
                                      app.emulation_paused_)
              n     == Len(order)
              done  == IF pc \in {"loop_test", "frame_limit"}
                       THEN loop.iters ELSE loop.iters - 1
          IN  /\ \A i \in 1..Len(LoopTrace) :
                     LoopTrace[i] = order[((i - 1) % n) + 1]
              /\ Len(LoopTrace) >= done * n
              /\ Len(LoopTrace) < (done + 1) * n
    /\ \A i \in 1..Len(cmd_log) :
           cmd_log[i][1] = CommandCycle[((i - 1) % Len(CommandCycle)) + 1]

\* Two iterations of a running, unpaused emulation are complete.
C4_Witness ==
    /\ pc = "loop_test"
    /\ loop.iters = 2
    /\ app.emulation_running_
    /\ ~app.emulation_paused_

RECURSIVE LastIndexOf(_, _, _)
LastIndexOf(q, c, i) ==
    IF i = 0 \/ q[i] = c THEN i ELSE LastIndexOf(q, c, i - 1)

\* The calls of the iteration in progress or just finished.
CurrentIteration ==
    LET first == LastIndexOf(LoopTrace, <<"input_manager_", "Update">>,
                             Len(LoopTrace))
    IN  IF first = 0 THEN <<>> ELSE SubSeq(LoopTrace, first, Len(LoopTrace))

Count(q, c) == Cardinality({i \in 1..Len(q) : q[i] = c})

\* C8: an iteration makes at most one emulation Update and exactly one
\* BeginFrame, EndFrame and Present; if its work took less than 16667
\* microseconds it sleeps for the remainder, so that it lasts at least the
\* target frame time; if it took that long or longer it does not sleep, and
\* the next iteration still makes at most one Update.
C8_FixedTimestep ==
    pc # "idle" =>
        /\ Count(CurrentIteration, <<"eden_core_", "Update">>) <= 1
        /\ Count(LoopTrace, <<"eden_core_", "Update">>) <= loop.iters
        /\ \A m \in {"BeginFrame", "EndFrame", "Present"} :
               Count(CurrentIteration, <<"renderer_", m>>) <= 1
        /\ (pc = "loop_test" /\ loop.iters > 0) =>
              /\ \A m \in {"BeginFrame", "EndFrame", "Present"} :
                     /\ Count(CurrentIteration, <<"renderer_", m>>) = 1
                     /\ Count(LoopTrace, <<"renderer_", m>>) = loop.iters
              /\ loop.work_ns < target_frame_time * 1000 =>
                     /\ loop.sleep_us * 1000 >=
                            target_frame_time * 1000 - loop.work_ns
                     /\ (loop.sleep_us - 1) * 1000 <
                            target_frame_time * 1000 - loop.work_ns
                     /\ loop.slept_ns >= loop.sleep_us * 1000
              /\ loop.work_ns >= target_frame_time * 1000 =>
                     loop.sleep_us = 0 /\ loop.slept_ns = 0
              /\ loop.work_ns + loop.slept_ns >= target_frame_time * 1000

\* A frame that slept, right after a frame of one second.
C8_Witness ==
    /\ pc = "loop_test"
    /\ loop.iters = 2
    /\ loop.slept_ns > 0
    /\ app.current_fps_ = <<1, 1000>>
    /\ Count(LoopTrace, <<"eden_core_", "Update">>) = 2

\* C9: once shutdown is requested while Run is active, Run returns 0; no
\* iteration starts while shutdown_requested_ is set, so a Run entered with
\* it set makes no iteration; shutdown_requested_ is never reset; and Run
\* on an application that is not initialized returns -1, leaves the
\* application as it is and calls nothing.
C9_ShutdownEndsRun ==
    /\ (pc # "idle" /\ app.shutdown_requested_)
           ~> (pc = "idle" /\ run_result = [state |-> "returned", value |-> 0])
    /\ [][app.shutdown_requested_ =>
              /\ app'.shutdown_requested_
              /\ loop'.iters <= loop.iters
              /\ pc = "loop_test" => pc' \in {"loop_test", "idle"}]_vars
    /\ [][(pc = "idle" /\ pc' # "idle") =>
              /\ app.initialized_
              /\ loop'.iters = 0
              /\ run_result'.state = "running"]_vars
    /\ [][(pc = "idle" /\ ~app.initialized_ /\ run_result' # run_result) =>
              /\ run_result' = [state |-> "returned", value |-> -1]
              /\ pc' = "idle"
              /\ app' = app
              /\ trace' = <<>>]_vars

\* Run has returned 0 after a shutdown request that came during its second
\* iteration.
C9_Witness ==
    /\ pc = "idle"
    /\ run_result = [state |-> "returned", value |-> 0]
    /\ loop.iters = 2
    /\ app.shutdown_requested_

\* The bytes of n as a k-byte binary number, most significant byte first.
BigEndian(n, k) == [i \in 1..k |-> (n \div (256 ^ (k - i))) % 256]

LittleEndian(n, k) == [i \in 1..k |-> (n \div (256 ^ (i - 1))) % 256]

\* The bytes start with the length of the rest, as a binary number of 1, 2
\* or 4 bytes or as decimal text.
LengthPrefixed(data) ==
    \/ \E k \in {1, 2, 4} :
           /\ k <= Len(data)
           /\ SubSeq(data, 1, k) \in {BigEndian(Len(data) - k, k),
                                      LittleEndian(Len(data) - k, k)}
    \/ \E k \in 1..Len(data) : SubSeq(data, 1, k) = to_string(Len(data) - k)

StartsWith(data, text) ==
    Len(text) <= Len(data) /\ SubSeq(data, 1, Len(text)) = text

\* Every receive is the answer to a send that did not fail, on the same
\* socket, right before it.
ReceivesAnswerSends ==
    \A i \in 1..Len(sock_log) :
        sock_log[i].call = "recv" =>
            /\ i > 1
            /\ sock_log[i - 1].call = "send"
            /\ sock_log[i - 1].ret >= 0
            /\ sock_log[i - 1].fd = sock_log[i].fd

C6_DevelopmentModeNeverConnects ==
    ~PS5_BUILD =>
        /\ ~plugin.connected_
        /\ ~plugin.registered_
        /\ plugin.ipc_socket_ = -1
        /\ sock_log = <<>>
        /\ ~plugin.etahen_available_
        /\ ~IsProcessJailbroken(plugin)
        /\ plugin_last.op \in {"ConnectToEtaHEN", "RegisterWithEtaHEN",
                               "RequestJailbreak", "EnableDataAccess",
                               "StartFTPServer", "LoadELF"}
               => ~plugin_last.ret
        /\ plugin_last.op = "GetEtaHENVersion" =>
               plugin_last.text = NotConnected

\* A development build whose initialized plugin was asked for a jailbreak.
C6_Witness ==
    /\ ~PS5_BUILD
    /\ plugin.initialized_
    /\ plugin_last.op = "RequestJailbreak"

Has(q, c) == \E i \in 1..Len(q) : q[i] = c

\* C7: EtaHENPlugin::Initialize returns true and leaves initialized_ set
\* whatever the connection and the registration did; main, once it is at
\* the etaHEN initialization, goes on to create the application and to
\* call its Initialize whatever etaHEN did, and calls Run if that
\* Initialize succeeds; main never returns without having done so.
C7_EtaHENFailureNotFatal ==
    /\ [](plugin_last.op = "Initialize" =>
              plugin_last.ret /\ plugin.initialized_)
    /\ [](main_pc = "done" =>
              /\ Has(main_trace, "make_unique<PS5Application>")
              /\ Has(main_trace, "g_ps5_app->Initialize")
              /\ main_trace[Len(main_trace)] # "g_ps5_app->Initialize"
                     => Has(main_trace, "g_ps5_app->Run"))
    /\ (main_pc = "etahen_init")
           ~> (g_ps5_app /\ Has(main_trace, "g_ps5_app->Initialize"))
    /\ (main_pc = "run") ~> Has(main_trace, "g_ps5_app->Run")

\* The application runs although the daemon was reached and turned the
\* jailbreak request down.
C7_Witness ==
    /\ PS5_BUILD
    /\ plugin.etahen_available_
    /\ plugin_last.op = "RequestJailbreak"
    /\ ~plugin_last.ret
    /\ main_pc = "in_run"
    /\ pc = "frame_limit"

\* The button ids of the default mapping by the names its comments give
\* them.
PS5Button ==
    [Cross |-> 1, Circle |-> 2, Square |-> 4, Triangle |-> 8, L1 |-> 16,
     R1 |-> 32, L2 |-> 64, R2 |-> 128, Share |-> 256, Options |-> 512,
     L3 |-> 1024, R3 |-> 2048, PS |-> 4096, Touchpad |-> 8192]

SwitchButton ==
    [A |-> 1, B |-> 2, Y |-> 4, X |-> 8, L |-> 16, R |-> 32, ZL |-> 64,
     ZR |-> 128, Minus |-> 256, Plus |-> 512, LeftStick |-> 1024,
     RightStick |-> 2048, Home |-> 4096, Capture |-> 8192]

\* The documented controller mapping, with L3 and R3.
ControllerMapping ==
    { <<"Cross", "A">>, <<"Circle", "B">>, <<"Square", "Y">>,
      <<"Triangle", "X">>, <<"L1", "L">>, <<"R1", "R">>, <<"L2", "ZL">>,
      <<"R2", "ZR">>, <<"Share", "Minus">>, <<"Options", "Plus">>,
      <<"L3", "LeftStick">>, <<"R3", "RightStick">>, <<"PS", "Home">>,
      <<"Touchpad", "Capture">> }

IsButtonEvent(event) == event.type \in {"ButtonPress", "ButtonRelease"}

\* The entries of the mapping for the button of the event.
Matches(mapping, event) ==
    {i \in 1..Len(mapping) : mapping[i].ps5_button = event.button_id}

\* C10: MapPS5ToSwitchInput gives a button event the switch_button of the
\* first entry of button_mapping_ for its button_id, and leaves the
\* button_id alone if there is no such entry or the event is not a button
\* event; all other fields are copied.  The mapping Initialize installs
\* sends each of the 14 buttons to its Switch counterpart.
C10_ControllerMapping ==
    /\ [][<<ps5_event, switch_event>>' # <<ps5_event, switch_event>> =>
            LET in  == ps5_event'
                out == switch_event'
                hit == Matches(button_mapping_, in)
            IN  /\ out.button_id =
                       IF IsButtonEvent(in) /\ hit # {}
                       THEN button_mapping_[CHOOSE i \in hit :
                                \A j \in hit : i <= j].switch_button
                       ELSE in.button_id
                /\ \A f \in DOMAIN in \ {"button_id"} : out[f] = in[f]
                /\ (button_mapping_ = DefaultMapping /\ IsButtonEvent(in)) =>
                       \A pair \in ControllerMapping :
                           in.button_id = PS5Button[pair[1]] =>
                               out.button_id = SwitchButton[pair[2]]]_vars
    /\ [][(~input_initialized_ /\ input_initialized_') =>
            \A pair \in ControllerMapping :
                \E i \in 1..Len(button_mapping_') :
                    /\ button_mapping_'[i] =
                           SwitchButtonMapping(PS5Button[pair[1]],
                                               SwitchButton[pair[2]])
                    /\ \A j \in 1..(i - 1) :
                           button_mapping_'[j].ps5_button
                               # PS5Button[pair[1]]]_vars

\* A press of a button for which the mapping has two entries with
\* different targets came out as the target of the first one.
C10_Witness ==
    /\ IsButtonEvent(ps5_event)
    /\ \E i \in Matches(button_mapping_, ps5_event),
          j \in Matches(button_mapping_, ps5_event) :
           /\ i < j
           /\ button_mapping_[i].switch_button
                  # button_mapping_[j].switch_button
           /\ switch_event.button_id = button_mapping_[i].switch_button
    /\ switch_event.button_id # ps5_event.button_id

LastOf(q) == q[Len(q)]

\* The socket calls a step adds to the history.
NewSockCalls == SubSeq(sock_log', Len(sock_log) + 1, Len(sock_log'))

\* main has just made `call`.
MainCalls(call) == main_trace' # main_trace /\ LastOf(main_trace') = call

IsJailbreakCommand(data) ==
    StartsWith(data, JAILBREAK) \/ data = ENABLE_DATA_ACCESS

\* C11: jailbreak activation at startup is automatic and ordered.  The call
\* main makes after IsEtaHENAvailable (itself made right after the plugin's
\* Initialize) is RequestJailbreak exactly when etahen_available_ is true,
\* and RequestJailbreak is called nowhere else; EnableDataAccess is called
\* only right after a RequestJailbreak that returned true; and a step that
\* sends a JAILBREAK or an ENABLE_DATA_ACCESS command starts and ends with
\* the plugin connected.
C11_JailbreakAutomaticAndOrdered ==
    /\ [][MainCalls("etahen.IsEtaHENAvailable") =>
              /\ main_trace # <<>>
              /\ LastOf(main_trace) = "etahen.Initialize"
              /\ plugin_last.op = "Initialize"]_vars
    /\ [][(main_trace # <<>> /\ main_trace' # main_trace
              /\ LastOf(main_trace) = "etahen.IsEtaHENAvailable") =>
              (LastOf(main_trace') = "etahen.RequestJailbreak"
                   <=> plugin.etahen_available_)]_vars
    /\ [][MainCalls("etahen.RequestJailbreak") =>
              /\ LastOf(main_trace) = "etahen.IsEtaHENAvailable"
              /\ plugin.etahen_available_
              /\ plugin_last'.op = "RequestJailbreak"]_vars
    /\ [][MainCalls("etahen.EnableDataAccess") =>
              /\ LastOf(main_trace) = "etahen.RequestJailbreak"
              /\ plugin_last = [op |-> "RequestJailbreak", ret |-> TRUE,
                                text |-> <<>>]]_vars
    /\ [][\A i \in 1..Len(NewSockCalls) :
              (NewSockCalls[i].call = "send"
                   /\ IsJailbreakCommand(NewSockCalls[i].data))
                  => plugin.connected_ /\ plugin'.connected_]_vars

\* On a console where the daemon answers, main has sent the jailbreak
\* request for its own process and then ENABLE_DATA_ACCESS.
C11_Witness ==
    /\ main_pc = "create_app"
    /\ LastOf(main_trace) = "etahen.EnableDataAccess"
    /\ plugin.connected_
    /\ \E i, j \in 1..Len(sock_log) :
           /\ i < j
           /\ sock_log[i].call = "send"
           /\ StartsWith(sock_log[i].data, JAILBREAK)
           /\ sock_log[j].call = "send"
           /\ sock_log[j].data = ENABLE_DATA_ACCESS

\* Argument i of argv is read as an option: it is not the value of a
\* --game or --config before it.
RECURSIVE IsOption(_, _)
IsOption(argv, i) ==
    \/ i = 1
    \/ i > 1 /\ IsOption(argv, i - 1) /\ argv[i - 1] \notin {"--game", "--config"}
    \/ i > 2 /\ IsOption(argv, i - 2) /\ argv[i - 2] \in {"--game", "--config"}

\* The places of argv where help is asked for.
HelpAt(argv) ==
    {i \in 1..Len(argv) : IsOption(argv, i) /\ argv[i] \in {"--help", "-h"}}

\* The places of argv where option opt is given with a value, before any
\* request for help.
GivenAt(argv, opt) ==
    {i \in 1..(Len(argv) - 1) :
        /\ IsOption(argv, i)
        /\ argv[i] = opt
        /\ \A h \in HelpAt(argv) : i < h}

\* The value of the last opt of argv that has one, or else old.
LastGiven(argv, opt, old) ==
    IF GivenAt(argv, opt) = {} THEN old
    ELSE argv[(CHOOSE i \in GivenAt(argv, opt) :
                  \A j \in GivenAt(argv, opt) : j <= i) + 1]

\* The first Run of the application goes from its start to the call of
\* MainLoop.
RunStarts == run_result = NotRun /\ pc = "idle" /\ pc' = "loop_test"

\* C12: Initialize on a new application takes game_path_ and config_path_
\* from the last --game and --config that have a value (one given as the
\* last argument has none and is ignored), and when --help or -h is given
\* it returns false, calls nothing and creates no subsystem.  The Run that
\* follows, before the first iteration of the main loop, calls the core's
\* LoadGame when game_path_ is not empty and StartEmulation only when that
\* load succeeded; when it failed, nothing of the application changes,
\* game_loaded_ and emulation_running_ stay false, and the loop is entered
\* all the same.
C12_StartWithGame ==
    /\ [](app = AppConstructed /\ pc = "idle" =>
            \A argv \in CmdLines, fail_at \in 0..Len(Subsystems) :
                LET r == AppInitialize(app, argv, fail_at)
                IN  /\ r.app.game_path_ =
                            LastGiven(argv, "--game", app.game_path_)
                    /\ r.app.config_path_ =
                            LastGiven(argv, "--config", app.config_path_)
                    /\ HelpAt(argv) # {} =>
                            /\ ~r.ret
                            /\ ~r.app.initialized_
                            /\ r.calls = <<>>
                            /\ \A k \in 1..Len(Subsystems) :
                                   r.app[Subsystems[k]] = "null"
                    /\ (HelpAt(argv) = {} /\ fail_at = 0) =>
                            r.ret /\ r.app.initialized_)
    /\ [][RunStarts =>
              /\ app.initialized_ /\ ~app.game_loaded_
              /\ loop' = LoopEntered
              /\ app'.game_path_ = app.game_path_
              /\ IF app.game_path_ = ""
                 THEN trace' = <<>> /\ app' = app
                 ELSE IF app'.game_loaded_
                 THEN trace' = Call("eden_core_", "LoadGame")
                                   \o Call("eden_core_", "StartEmulation")
                 ELSE /\ trace' = Call("eden_core_", "LoadGame")
                      /\ app' = app
                      /\ ~app'.emulation_running_]_vars
    /\ [][pc # "idle" =>
              /\ app'.game_loaded_ = app.game_loaded_
              /\ app'.emulation_running_ = app.emulation_running_]_vars
    /\ []((pc = "loop_test" /\ loop.iters = 0 /\ ~app.shutdown_requested_)
              => ENABLED LoopEnter)

\* The second of two games given on the command line is loaded and
\* emulated, and the first frame of the main loop has rendered it.
C12_Witness ==
    /\ app.game_path_ = "g2"
    /\ app.game_loaded_
    /\ app.emulation_running_
    /\ pc = "frame_limit"
    /\ loop.iters = 1
    /\ trace[1] = <<"eden_core_", "LoadGame">>
    /\ Has(trace, <<"eden_core_", "Render">>)

EmulationFlags(a) ==
    <<a.game_loaded_, a.emulation_running_, a.emulation_paused_>>

\* PauseEmulation, ResumeEmulation and StartEmulation called in the current
\* state change it only under their conditions, and then only the flags
\* they are about.
EmulationGuards ==
    /\ PauseEmulation(app) # app =>
           /\ app.emulation_running_ /\ ~app.emulation_paused_
           /\ PauseEmulation(app) = [app EXCEPT !.emulation_paused_ = TRUE]
    /\ ResumeEmulation(app) # app =>
           /\ app.emulation_running_ /\ app.emulation_paused_
           /\ ResumeEmulation(app) = [app EXCEPT !.emulation_paused_ = FALSE]
    /\ \A core_ok \in BOOLEAN :
           StartEmulation(app, core_ok).app # app =>
               /\ app.game_loaded_ /\ ~app.emulation_running_ /\ core_ok
               /\ StartEmulation(app, core_ok).app =
                      [app EXCEPT !.emulation_running_ = TRUE,
                                  !.emulation_paused_ = FALSE]

\* A main loop iteration of a paused emulation reaches the rendering, does
\* not call the core's Update and calls the core's Render.
PausedLoopCalls ==
    /\ []((pc = "begin_frame" /\ app.emulation_paused_) =>
              app.renderer_ # "null")
    /\ [][(pc = "core_update" /\ app.emulation_paused_ /\ pc' # pc) =>
              trace' = trace]_vars
    /\ [][(pc = "core_render" /\ app.emulation_paused_ /\ pc' # pc) =>
              trace' = trace \o Call("eden_core_", "Render")]_vars

\* C14 as the claim states it: the guards of PauseEmulation,
\* ResumeEmulation and StartEmulation; PauseEmulation followed by
\* ResumeEmulation restores the flags there were, whatever they were; the
\* main loop of a paused emulation calls Render and not Update.
C14_PauseResumeRestores ==
    /\ []EmulationGuards
    /\ [](EmulationFlags(ResumeEmulation(PauseEmulation(app)))
              = EmulationFlags(app))
    /\ PausedLoopCalls

\* C14, amended: as above, but PauseEmulation followed by ResumeEmulation
\* restores the flags only of an emulation that was not paused; a paused
\* one is left running and not paused, since the Pause does nothing and
\* the Resume ends the pause that there was.
C14_PauseResumeGuards ==
    /\ []EmulationGuards
    /\ [](~app.emulation_paused_ =>
              EmulationFlags(ResumeEmulation(PauseEmulation(app)))
                  = EmulationFlags(app))
    /\ [](app.emulation_paused_ =>
              ResumeEmulation(PauseEmulation(app))
                  = [app EXCEPT !.emulation_paused_ = FALSE])
    /\ PausedLoopCalls

\* The main loop has rendered a frame of a paused emulation without
\* updating the core.
C14_Witness ==
    /\ app.emulation_running_ /\ app.emulation_paused_
    /\ pc = "frame_limit"
    /\ Has(trace, <<"eden_core_", "Render">>)
    /\ ~Has(trace, <<"eden_core_", "Update">>)

\* A LoadGame called on its own (not from Run) has just returned, having
\* asked the core; the step is not a RequestShutdown that came after it.
LoadGameReturns ==
    /\ pc = "idle" /\ pc' = "idle"
    /\ trace' = Call("eden_core_", "LoadGame")
    /\ app'.shutdown_requested_ = app.shutdown_requested_

\* C15: a LoadGame that fails, the core missing or its LoadGame returning
\* false, returns false and changes nothing of the application; one that
\* succeeds returns true, sets game_loaded_ and game_path_ and changes
\* nothing else, in particular not the emulation flags, and calls nothing
\* of the core but LoadGame, whether or not a game is loaded and running.
C15_LoadGameLeavesEmulation ==
    /\ [](\A game_path \in GamePaths, core_ok \in BOOLEAN :
              LET r == LoadGame(app, game_path, core_ok)
              IN  IF app.eden_core_ = "null" \/ ~core_ok
                  THEN /\ ~r.ret
                       /\ r.app = app
                       /\ r.calls \in {<<>>, Call("eden_core_", "LoadGame")}
                  ELSE /\ r.ret
                       /\ r.app = [app EXCEPT !.game_loaded_ = TRUE,
                                               !.game_path_ = game_path]
                       /\ r.calls = Call("eden_core_", "LoadGame"))
    /\ [][LoadGameReturns =>
              /\ app'.emulation_running_ = app.emulation_running_
              /\ app'.emulation_paused_ = app.emulation_paused_
              /\ \/ app' = app
                 \/ \E game_path \in GamePaths :
                        app' = [app EXCEPT !.game_loaded_ = TRUE,
                                           !.game_path_ = game_path]]_vars

\* A second game has been loaded while the emulation of the first was
\* running and paused, and it still is.
C15_Witness ==
    /\ pc = "idle"
    /\ trace = Call("eden_core_", "LoadGame")
    /\ run_result = NotRun
    /\ app.game_loaded_ /\ app.game_path_ = "g2"
    /\ app.emulation_running_ /\ app.emulation_paused_

\* The calls the application makes to stop the emulation and to unload the
\* game when it is in state a.
StopThenUnload(a) ==
    (IF a.emulation_running_ THEN Call("eden_core_", "StopEmulation")
     ELSE <<>>)
    \o (IF a.game_loaded_ THEN Call("eden_core_", "UnloadGame") ELSE <<>>)

\* Shutdown of an initialized application has just returned.
ShutdownReturns == pc = "idle" /\ app.initialized_ /\ ~app'.initialized_

\* C16: whenever an operation asks the core to unload the game, the
\* emulation is not running when the operation returns, and if it was
\* running when the operation began, the core's StopEmulation was called
\* before the core's UnloadGame; nothing asks the core to unload while the
\* main loop runs.  Shutdown of an initialized application calls, in this
\* order, the core's StopEmulation (if the emulation runs), the core's
\* UnloadGame (if a game is loaded), SaveSettings, and then only Shutdown
\* and reset of the subsystems; it leaves initialized_ and the three
\* emulation flags false, and game_path_ empty if a game was loaded.
C16_StopBeforeUnload ==
    /\ [][(trace' # trace /\ Has(trace', <<"eden_core_", "UnloadGame">>)) =>
              /\ pc = "idle" /\ pc' = "idle"
              /\ ~app'.emulation_running_ /\ ~app'.game_loaded_
              /\ \A i \in 1..Len(trace') :
                     (trace'[i] = <<"eden_core_", "UnloadGame">>
                          /\ app.emulation_running_) =>
                         \E j \in 1..(i - 1) :
                             trace'[j] = <<"eden_core_", "StopEmulation">>]_vars
    /\ [](pc # "idle" => ~Has(trace, <<"eden_core_", "UnloadGame">>))
    /\ [][ShutdownReturns =>
              LET n == Len(StopThenUnload(app)) + 1
              IN  /\ Len(trace') > n
                  /\ SubSeq(trace', 1, n) =
                         StopThenUnload(app) \o Call("this", "SaveSettings")
                  /\ \A i \in (n + 1)..Len(trace') :
                         /\ trace'[i][1] \in {Subsystems[k] :
                                                  k \in 1..Len(Subsystems)}
                         /\ trace'[i][2] \in {"Shutdown", "reset"}
                  /\ ~app'.game_loaded_
                  /\ ~app'.emulation_running_
                  /\ ~app'.emulation_paused_
                  /\ app.game_loaded_ => app'.game_path_ = ""]_vars

\* UnloadGame has just unloaded the game of a running emulation: the core
\* was told to stop and then to unload, and the application is still
\* initialized.
C16_Witness ==
    /\ pc = "idle"
    /\ app.initialized_
    /\ trace = Call("eden_core_", "StopEmulation")
                   \o Call("eden_core_", "UnloadGame")
    /\ ~app.game_loaded_ /\ ~app.emulation_running_
    /\ app.game_path_ = ""

\* The subsystems the frontend and the Eden core are given raw pointers
\* to, and those two.
Pointees == {"renderer_", "audio_manager_", "input_manager_"}

Dependents == {"frontend_", "eden_core_"}

\* Initialize has just got as far as the subsystems.
InitializeReturns ==
    trace' # trace /\ trace' # <<>> /\ trace'[1] = <<"this", "LoadSettings">>

\* The Shutdown and reset calls that take application a's subsystems down
\* from number k back to the first.
RECURSIVE ReverseTeardown(_, _)
ReverseTeardown(a, k) ==
    IF k = 0 THEN <<>>
    ELSE (IF a[Subsystems[k]] # "null"
          THEN Call(Subsystems[k], "Shutdown") \o Call(Subsystems[k], "reset")
          ELSE <<>>)
         \o ReverseTeardown(a, k - 1)

\* Initialize is called on renderer, audio manager, input manager, frontend
\* and Eden core in this order up to the first that returns false; the
\* subsystems after that one are left as they were.
InitializationInOrder ==
    [][InitializeReturns =>
          \E m \in 1..Len(Subsystems) :
              /\ SelectSeq(trace', LAMBDA c : c[2] = "Initialize")
                     = [k \in 1..m |-> <<Subsystems[k], "Initialize">>]
              /\ \A k \in 1..(m - 1) : app'[Subsystems[k]] = "ready"
              /\ m < Len(Subsystems) => app'[Subsystems[m]] = "failed"
              /\ app'.initialized_ <=> app'[Subsystems[m]] = "ready"
              /\ \A k \in (m + 1)..Len(Subsystems) :
                     app'[Subsystems[k]] = app[Subsystems[k]]]_vars

\* Shutdown takes the subsystems down from the Eden core back to the
\* renderer, each shut down and then destroyed, and leaves none.
TeardownInReverse ==
    [][ShutdownReturns =>
          /\ SubSeq(trace', Len(StopThenUnload(app)) + 2, Len(trace'))
                 = ReverseTeardown(app, Len(Subsystems))
          /\ \A k \in 1..Len(Subsystems) : app'[Subsystems[k]] = "null"]_vars

\* Whenever an operation destroys the renderer, the audio manager or the
\* input manager, every frontend and Eden core there was when it began
\* has been destroyed before.
DependentsGoFirst ==
    [][trace' # trace =>
          \A i \in 1..Len(trace') :
              (trace'[i][1] \in Pointees /\ trace'[i][2] = "reset") =>
                  \A d \in Dependents :
                      app[d] # "null" =>
                          \E j \in 1..(i - 1) : trace'[j] = <<d, "reset">>]_vars

\* C17: the subsystems are initialized in the order renderer, audio
\* manager, input manager, frontend, Eden core, stopping at the first whose
\* Initialize returns false, and are shut down and destroyed in the
\* reverse order; the frontend and the Eden core are always destroyed
\* before any of the objects they point to.
C17_ReverseOrderTeardown ==
    /\ InitializationInOrder
    /\ TeardownInReverse
    /\ DependentsGoFirst

\* What Initialize does to each component that is initialized: it returns
\* true, changes nothing and takes no step.
InitializeAgain ==
    /\ app.initialized_ =>
           \A argv \in Argvs, fail_at \in 0..Len(Subsystems) :
               AppInitialize(app, argv, fail_at) =
                   [app |-> app, ret |-> TRUE, calls |-> <<>>, made |-> 0]
    /\ renderer.initialized_ =>
           \A fail \in RendererParts \cup {"none"} :
               RendererInitialize(RendererNow, fail) =
                   [r |-> RendererNow, ret |-> TRUE, steps |-> <<>>]
    /\ gnm.initialized_ =>
           GNMWrapperInitialize(gnm) = [g |-> gnm, ret |-> TRUE, steps |-> <<>>]
    /\ audio_manager.initialized_ =>
           AudioInitialize(audio_manager, PS5_BUILD) =
               [a |-> audio_manager, ret |-> TRUE, steps |-> <<>>]
    /\ plugin.initialized_ =>
           \A fd \in SocketResults, connect_ok \in BOOLEAN, x \in MainExchanges :
               PluginInitialize(plugin, sock_log, fd, connect_ok, x) =
                   [p |-> plugin, log |-> sock_log, ret |-> TRUE]
    /\ platform.initialized_ =>
           PS5SystemInitialize(platform) = [s |-> platform, ret |-> TRUE]

\* What Shutdown does to each component that is not initialized: nothing.
ShutdownAgain ==
    /\ ~app.initialized_ => AppShutdown(app) = [app |-> app, calls |-> <<>>]
    /\ ~renderer.initialized_ =>
           RendererShutdown(RendererNow) = [r |-> RendererNow, steps |-> <<>>]
    /\ ~gnm.initialized_ => GNMWrapperShutdown(gnm) = [g |-> gnm, steps |-> <<>>]
    /\ ~audio_manager.initialized_ =>
           AudioShutdown(audio_manager) = [a |-> audio_manager, steps |-> <<>>]
    /\ ~plugin.initialized_ =>
           \A x1 \in MainExchanges, x2 \in MainExchanges :
               PluginShutdown(plugin, sock_log, x1, x2) =
                   [p |-> plugin, log |-> sock_log]
    /\ ~platform.initialized_ => PS5SystemShutdown(platform) = platform

\* The same of the input manager, whose operations are written as steps.
InputAgain ==
    /\ input_initialized_ /\ InputInitialize => UNCHANGED inputVars
    /\ ~input_initialized_ /\ InputShutdown => UNCHANGED inputVars

\* In a step the flag `is` becomes `becomes`: true in an Initialize that
\* returned true (ok), false in a Shutdown (off), and what it was otherwise.
FlagFollows(is, becomes, ok, off) ==
    /\ ok => becomes
    /\ off => ~becomes
    /\ becomes # is => ok \/ off

\* An application's Initialize or Shutdown, which make and destroy its
\* renderer.
ApplicationStep ==
    \/ \E argv \in Argvs, fail_at \in 0..Len(Subsystems) :
           CallInitialize(argv, fail_at)
    \/ CallShutdown

InitializedFollows ==
    /\ FlagFollows(app.initialized_, app'.initialized_,
                   \E argv \in Argvs, fail_at \in 0..Len(Subsystems) :
                       /\ CallInitialize(argv, fail_at)
                       /\ AppInitialize(app, argv, fail_at).ret,
                   CallShutdown)
    /\ \/ ApplicationStep /\ renderer'.initialized_ = (app'.renderer_ = "ready")
       \/ FlagFollows(renderer.initialized_, renderer'.initialized_,
                      CallRendererInitialize("none"), CallRendererShutdown)
    /\ \/ ApplicationStep /\ gnm'.initialized_ = (app'.renderer_ # "null")
       \/ \E fail \in RendererParts \cup {"none"} :
              CallRendererInitialize(fail) /\ gnm'.initialized_
       \/ FlagFollows(gnm.initialized_, gnm'.initialized_,
                      CallGNMWrapperInitialize,
                      \/ CallGNMWrapperShutdown
                      \/ CallRendererShutdown /\ renderer.initialized_)
    /\ FlagFollows(audio_manager.initialized_, audio_manager'.initialized_,
                   CallAudioInitialize, CallAudioShutdown)
    /\ FlagFollows(input_initialized_, input_initialized_',
                   InputInitialize, InputShutdown)
    /\ FlagFollows(plugin.initialized_, plugin'.initialized_,
                   \E fd \in SocketResults, connect_ok \in BOOLEAN,
                      x \in MainExchanges :
                       CallPluginInitialize(fd, connect_ok, x),
                   \E x1 \in MainExchanges, x2 \in MainExchanges :
                       CallPluginShutdown(x1, x2))
    /\ FlagFollows(platform.initialized_, platform'.initialized_,
                   CallPS5SystemInitialize, CallPS5SystemShutdown)

MainCallAt(call) == LastIndexOf(main_trace, call, Len(main_trace))

\* The teardown main has made is in the reverse order of the start-up.
MainTeardownInOrder ==
    Has(main_trace, "g_ps5_app->Shutdown") =>
        /\ MainCallAt("g_ps5_app->Shutdown") < MainCallAt("etahen.Shutdown")
        /\ MainCallAt("etahen.Shutdown") < MainCallAt("PS5System::Shutdown")

\* C19: main shuts down the application, then the etaHEN plugin, then the
\* platform layer, and when main has returned, by whichever return
\* statement, every layer whose Initialize succeeded has been shut down:
\* PS5System::Shutdown and EtaHENPlugin::Shutdown have been called and
\* neither layer is left initialized, also when the application's
\* Initialize failed.  (PS5System::Initialize and EtaHENPlugin::Initialize
\* return true whenever main calls them, so a call of either succeeded.)
C19_TeardownOnEveryPath ==
    main_result.state = "returned" =>
        /\ MainTeardownInOrder
        /\ Has(main_trace, "PS5System::Initialize") =>
               /\ Has(main_trace, "PS5System::Shutdown")
               /\ ~platform.initialized_
        /\ Has(main_trace, "etahen.Initialize") =>
               /\ Has(main_trace, "etahen.Shutdown")
               /\ ~plugin.initialized_

\* main has left the main loop and run its shutdown sequence.
MainShutDown ==
    /\ main_pc = "done"
    /\ Has(main_trace, "g_ps5_app->Run")
    /\ Has(main_trace, "g_ps5_app->Shutdown")
    /\ Has(main_trace, "etahen.Shutdown")
    /\ Has(main_trace, "PS5System::Shutdown")

\* A signal that was delivered is not lost: when MainLoop tests
\* shutdown_requested_ after SignalHandler has run, it finds it set.
\* (Nothing but RequestShutdown, which only SignalHandler calls, sets it, so
\* a test that finds it clear is followed by another iteration, and by as
\* many more as pass before a further signal arrives.)
SignalSeenByLoop ==
    (signalled /\ main_pc = "in_run" /\ pc = "loop_test") =>
        app.shutdown_requested_

\* C20: once SignalHandler has run, at whatever point of main after the
\* handlers were installed (before g_ps5_app is created, during Initialize
\* or in the main loop), the main loop ends and main runs its shutdown
\* sequence: no signal is lost, so the loop's test finds the request.
C20_SignalEndsMain == []SignalSeenByLoop /\ (signalled ~> MainShutDown)
\* The service flags of the plugin hold only while it is connected.
FlagsNeedConnection ==
    /\ plugin.registered_ => plugin.connected_
    /\ plugin.ftp_server_running_ => plugin.connected_

\* After DisconnectFromEtaHEN or Shutdown the plugin is neither registered
\* nor reports a running FTP server.
ClearedAfterDisconnect ==
    plugin_last.op \in {"DisconnectFromEtaHEN", "Shutdown"} =>
        /\ ~plugin.registered_
        /\ ~plugin.ftp_server_running_

\* C21: after any sequence of public EtaHENPlugin operations, registered_
\* implies connected_ and ftp_server_running_ implies connected_; after
\* DisconnectFromEtaHEN or Shutdown the plugin is neither registered nor
\* reports a running FTP server.
C21_RegisteredImpliesConnected ==
    FlagsNeedConnection /\ ClearedAfterDisconnect
====
